---------------------------- MODULE Spec2Model ----------------------------
(***************************************************************************)
(* A model of aerosandbox/aerodynamics/aero_3D/vortex_lattice_method.py:   *)
(* the VortexLatticeMethod solver instance, its constructor, run(),        *)
(* run_with_stability_derivatives(), get_velocity_at_points(),             *)
(* calculate_streamlines() and draw().                                     *)
(*                                                                         *)
(* Numbers.  The program computes in floating point; the model computes in *)
(* integers.  Lengths, velocities, circulations, forces and moments are    *)
(* integers; a real division is the integer division \div.  Dimensionless  *)
(* coefficients and the angles of the viscous iteration are fixed-point    *)
(* numbers with FixedPoint units to one, unit normals are kept in          *)
(* NormalScale-ths.  A non-finite float (inf or nan, what numpy gives for  *)
(* a division by zero) is the value NaN, which every N-operation           *)
(* propagates.  Angles of the operating point are counted in ticks, one    *)
(* tick being the finite-difference increment of the stability sweep; the  *)
(* operating-point collaborator turns the axes by a quarter turn per tick, *)
(* so that every rotation is exact.                                        *)
(*                                                                         *)
(* Collaborators that are not part of the file (meshing, airfoil polars,   *)
(* the horseshoe kernel, the operating point, numpy's linear solve) are    *)
(* modelled from their contracts.                                          *)
(***************************************************************************)
EXTENDS Integers, Sequences, FiniteSets, TLC

VARIABLES
    self,      \* the solver instance: its attributes (see NoInstance)
    heap,      \* the operating-point objects, by identity
    exc,       \* the exception the last call raised, or "none"
    ret,       \* the value the last call returned
    trace      \* what the last call did: the run() calls it made, the polar
               \* evaluations, the streamline computations

vars == <<self, heap, exc, ret, trace>>

(***************************************************************************)
(* Bounds of the model                                                     *)
(***************************************************************************)
MaxWings == 2           \* wings of an airplane
MaxChordwise == 2       \* chordwise_resolution
MaxSpanwise == 2        \* spanwise_resolution
MaxSteps == 3           \* n_steps of calculate_streamlines
MaxRate == 1            \* largest body rate p, q, r of an operating point
MaxOperatingPoints == 2 \* operating points a script gives one solver

(***************************************************************************)
(* Number representation                                                   *)
(***************************************************************************)
FixedPointRoot == 100
FixedPoint == FixedPointRoot * FixedPointRoot
NormalScale == 5
NaN == -2000000000

IsNaN(x) == x = NaN

NNeg(a) == IF IsNaN(a) THEN NaN ELSE -a
NAdd(a, b) == IF IsNaN(a) \/ IsNaN(b) THEN NaN ELSE a + b
NSub(a, b) == IF IsNaN(a) \/ IsNaN(b) THEN NaN ELSE a - b
NMul(a, b) == IF IsNaN(a) \/ IsNaN(b) THEN NaN ELSE a * b
\* a / b in floats: a division by zero gives inf or nan, never an exception
NDiv(a, b) == IF IsNaN(a) \/ IsNaN(b) \/ b = 0 THEN NaN ELSE a \div b
\* a comparison with a nan is False
NLess(a, b) == IF IsNaN(a) \/ IsNaN(b) THEN FALSE ELSE a < b
Abs(a) == IF IsNaN(a) THEN NaN ELSE IF a < 0 THEN -a ELSE a

RECURSIVE SqrtSearch(_, _, _)
SqrtSearch(n, lo, hi) ==
    IF lo >= hi THEN lo
    ELSE LET mid == (lo + hi + 1) \div 2
         IN  IF mid * mid <= n THEN SqrtSearch(n, mid, hi)
             ELSE SqrtSearch(n, lo, mid - 1)

\* the square root, rounded down
Sqrt(n) == SqrtSearch(n, 0, IF n < 40000 THEN 200 ELSE 40000)

Zero3 == <<0, 0, 0>>
NaN3 == <<NaN, NaN, NaN>>
VAdd(a, b) == <<a[1] + b[1], a[2] + b[2], a[3] + b[3]>>
VSub(a, b) == <<a[1] - b[1], a[2] - b[2], a[3] - b[3]>>
VScale(k, a) == <<k * a[1], k * a[2], k * a[3]>>
VDiv(a, k) == <<a[1] \div k, a[2] \div k, a[3] \div k>>
Dot(a, b) == a[1] * b[1] + a[2] * b[2] + a[3] * b[3]
Cross(a, b) == <<a[2] * b[3] - a[3] * b[2],
                 a[3] * b[1] - a[1] * b[3],
                 a[1] * b[2] - a[2] * b[1]>>
Norm(a) == Sqrt(Dot(a, a))

IsNaN3(a) == IsNaN(a[1]) \/ IsNaN(a[2]) \/ IsNaN(a[3])
NVAdd(a, b) == <<NAdd(a[1], b[1]), NAdd(a[2], b[2]), NAdd(a[3], b[3])>>
NVScale(k, a) == <<NMul(k, a[1]), NMul(k, a[2]), NMul(k, a[3])>>
NCross(a, b) == <<NSub(NMul(a[2], b[3]), NMul(a[3], b[2])),
                  NSub(NMul(a[3], b[1]), NMul(a[1], b[3])),
                  NSub(NMul(a[1], b[2]), NMul(a[2], b[1]))>>

RECURSIVE SumSeq(_)
SumSeq(s) == IF s = <<>> THEN 0 ELSE Head(s) + SumSeq(Tail(s))

RECURSIVE NSumSeq(_)
NSumSeq(s) == IF s = <<>> THEN 0 ELSE NAdd(Head(s), NSumSeq(Tail(s)))

RECURSIVE VSumSeq(_)
VSumSeq(s) == IF s = <<>> THEN Zero3 ELSE VAdd(Head(s), VSumSeq(Tail(s)))

RECURSIVE NVSumSeq(_)
NVSumSeq(s) == IF s = <<>> THEN Zero3 ELSE NVAdd(Head(s), NVSumSeq(Tail(s)))

RECURSIVE Concat(_)
Concat(ss) == IF ss = <<>> THEN <<>> ELSE Head(ss) \o Concat(Tail(ss))

Column(s, k) == <<>> \o [i \in 1..Len(s) |-> s[i][k]]
Range(s) == {s[i] : i \in 1..Len(s)}

\* array[mask]: the entries of s at which mask holds, in order
RECURSIVE Masked(_, _)
Masked(s, mask) ==
    IF s = <<>> THEN <<>>
    ELSE (IF Head(mask) THEN <<Head(s)>> ELSE <<>>) \o Masked(Tail(s), Tail(mask))


(***************************************************************************)
(* The operating point and the atmosphere (collaborators)                  *)
(***************************************************************************)
Density == 2
KinematicViscosity == 1

\* cosine and sine of an angle of a ticks (a quarter turn per tick)
CosQ(a) == CASE a % 4 = 0 -> 1 [] a % 4 = 2 -> -1 [] OTHER -> 0
SinQ(a) == CASE a % 4 = 1 -> 1 [] a % 4 = 3 -> -1 [] OTHER -> 0

\* OperatingPoint.convert_axes, by way of body axes
ToBody(op, v, from_axes) ==
    LET ca == CosQ(op.alpha)  sa == SinQ(op.alpha)
        cb == CosQ(op.beta)   sb == SinQ(op.beta)
    IN  CASE from_axes = "geometry" -> <<NNeg(v[1]), v[2], NNeg(v[3])>>
          [] from_axes = "body" -> v
          [] from_axes = "wind" ->
                <<NAdd(NAdd(NMul(cb * ca, v[1]), NMul(-sb * ca, v[2])), NMul(-sa, v[3])),
                  NAdd(NMul(sb, v[1]), NMul(cb, v[2])),
                  NAdd(NAdd(NMul(cb * sa, v[1]), NMul(-sb * sa, v[2])), NMul(ca, v[3]))>>

FromBody(op, v, to_axes) ==
    LET ca == CosQ(op.alpha)  sa == SinQ(op.alpha)
        cb == CosQ(op.beta)   sb == SinQ(op.beta)
    IN  CASE to_axes = "geometry" -> <<NNeg(v[1]), v[2], NNeg(v[3])>>
          [] to_axes = "body" -> v
          [] to_axes = "wind" ->
                <<NAdd(NAdd(NMul(cb * ca, v[1]), NMul(sb, v[2])), NMul(cb * sa, v[3])),
                  NAdd(NAdd(NMul(-sb * ca, v[1]), NMul(cb, v[2])), NMul(-sb * sa, v[3])),
                  NAdd(NMul(-sa, v[1]), NMul(ca, v[3]))>>

convert_axes(op, v, from_axes, to_axes) == FromBody(op, ToBody(op, v, from_axes), to_axes)

\* the direction the wind is going to, in geometry axes
compute_freestream_direction_geometry_axes(op) ==
    convert_axes(op, <<-1, 0, 0>>, "wind", "geometry")

compute_freestream_velocity_geometry_axes(op) ==
    VScale(op.velocity, compute_freestream_direction_geometry_axes(op))

\* the velocity the wing sees at each point because of the body rates (a
\* rate of one tick is 1 / RateDivisor)
RateDivisor == 4

compute_rotation_velocity_geometry_axes(op, points) ==
    <<>> \o [i \in 1..Len(points) |->
        VDiv(VScale(-1, Cross(<<-op.p, op.q, -op.r>>, points[i])), RateDivisor)]

dynamic_pressure(op) == (Density * op.velocity * op.velocity) \div 2

(***************************************************************************)
(* Airfoils and their polars (collaborators)                               *)
(***************************************************************************)
Airfoil(polar, cd0) == [polar |-> polar, cd0 |-> cd0]

\* Airfoil.blend_with_another_airfoil, at the blend fraction num / den
blend_with_another_airfoil(a, b, num, den) ==
    [polar |-> IF num = 0 THEN a.polar
               ELSE IF num = den THEN b.polar
               ELSE IF a.polar = b.polar THEN a.polar ELSE "linear",
     cd0 |-> a.cd0 + ((b.cd0 - a.cd0) * num) \div den]

ClMax == 100

\* the lift coefficient of a polar at alpha (degrees, fixed point)
PolarCL(polar, alpha) ==
    CASE polar = "linear" -> (alpha + 2 * FixedPoint) \div 10
      [] polar = "stall" -> ClMax - Abs(alpha) \div 10
      [] polar = "flat" -> 0

PolarAero(af, alpha, Re, extra) ==
    IF IsNaN(alpha) THEN [CL |-> NaN, CD |-> NaN, CM |-> NaN]
    ELSE [CL |-> PolarCL(af.polar, alpha),
          CD |-> af.cd0 + 115200 \div Re + Abs(alpha) \div 1000 + extra,
          CM |-> -500]

get_aero_from_xfoil(af, alpha, Re) == PolarAero(af, alpha, Re, 10)
get_aero_from_neuralfoil(af, alpha, Re, model_size) == PolarAero(af, alpha, Re, 0)

(***************************************************************************)
(* Wings, airplanes and the mesher (collaborators)                         *)
(***************************************************************************)
Chord == 48
SectionSpan == 12

XSec(xyz_le, chord, airfoil) == [xyz_le |-> xyz_le, chord |-> chord, airfoil |-> airfoil]

\* Wing.subdivide_sections: every section is cut into ratio sections
subdivide_sections(wing, ratio) ==
    LET n == Len(wing.xsecs) - 1
        Between(a, b, k) ==
            XSec(VAdd(a.xyz_le, VDiv(VScale(k, VSub(b.xyz_le, a.xyz_le)), ratio)),
                 a.chord + ((b.chord - a.chord) * k) \div ratio,
                 blend_with_another_airfoil(a.airfoil, b.airfoil, k, ratio))
    IN  [wing EXCEPT !.xsecs =
            <<>> \o [m \in 1..(n * ratio + 1) |->
                IF m = n * ratio + 1 THEN wing.xsecs[n + 1]
                ELSE Between(wing.xsecs[(m - 1) \div ratio + 1],
                             wing.xsecs[(m - 1) \div ratio + 2],
                             (m - 1) % ratio)]]

\* Wing.mesh_thin_surface(method="quad"): the quads, spanwise station by
\* station and front to back within a station, each with its four vertices;
\* a symmetric wing is followed by its mirror image
mesh_thin_surface(wing, chordwise_resolution, add_camber) ==
    LET n == Len(wing.xsecs) - 1
        cr == chordwise_resolution
        Node(xs, j) ==
            LET dx == (xs.chord * j) \div cr
            IN  <<xs.xyz_le[1] + dx, xs.xyz_le[2],
                  xs.xyz_le[3] - (IF add_camber /\ wing.cambered THEN (3 * dx) \div 4 ELSE 0)>>
        Face(i, j) == [fl |-> Node(wing.xsecs[i], j - 1),
                       bl |-> Node(wing.xsecs[i], j),
                       br |-> Node(wing.xsecs[i + 1], j),
                       fr |-> Node(wing.xsecs[i + 1], j - 1)]
        Right(k) == Face((k - 1) \div cr + 1, ((k - 1) % cr) + 1)
        Flip(v) == <<v[1], -v[2], v[3]>>
        Left(k) == [fl |-> Flip(Right(k).fl), bl |-> Flip(Right(k).bl),
                    br |-> Flip(Right(k).br), fr |-> Flip(Right(k).fr)]
    IN  (<<>> \o [k \in 1..(n * cr) |-> Right(k)])
            \o (IF wing.symmetric THEN <<>> \o [k \in 1..(n * cr) |-> Left(k)] ELSE <<>>)

Variants == {"plate", "cambered", "mixed"}

\* the k-th wing of an airplane of a variant: the wings lie side by side
WingOf(variant, k) ==
    LET y0 == (k - 1) * SectionSpan
        afA == CASE variant = "plate" -> Airfoil("linear", 100)
                 [] variant = "cambered" -> Airfoil(IF k = 1 THEN "stall" ELSE "linear", 60)
                 [] OTHER -> Airfoil(IF k = 1 THEN "flat" ELSE "linear", 80)
        afB == CASE variant = "plate" -> Airfoil("linear", 100)
                 [] variant = "cambered" -> Airfoil(IF k = 1 THEN "stall" ELSE "linear", 100)
                 [] OTHER -> Airfoil(IF k = 1 THEN "flat" ELSE "stall", 40)
    IN  [xsecs |-> <<XSec(<<0, y0, 0>>, Chord, afA),
                     XSec(<<0, y0 + SectionSpan, 0>>, Chord, afB)>>,
         symmetric |-> (variant = "cambered") \/ (variant = "mixed" /\ k = 1),
         cambered |-> (variant = "cambered") \/ (variant = "mixed" /\ k = 2)]

Airplane(n, variant) ==
    [wings |-> <<>> \o [k \in 1..n |-> WingOf(variant, k)],
     xyz_ref |-> <<12, 0, 0>>,
     s_ref |-> Chord * SectionSpan,
     b_ref |-> 2 * SectionSpan,
     c_ref |-> SectionSpan]

Airplanes == {Airplane(n, v) : n \in 1..MaxWings, v \in Variants}
                 \cup {Airplane(0, "plate")}

(***************************************************************************)
(* The horseshoe kernel and the linear solve (collaborators)               *)
(***************************************************************************)
\* calculate_induced_velocity_horseshoe for one field point and one
\* filament: linear in gamma; zero within the core radius of the bound
\* leg's midpoint, outside the span band of the filament and upstream of it;
\* at the bound leg half of what it is downstream
\* the velocity at twice the offset off from the midpoint of the bound leg
HorseshoeVelocity(leg, off, trailing_vortex_direction, gamma, scale) ==
    IF scale = 0 THEN Zero3
    ELSE VScale(gamma * (IF off[1] > 0 THEN 2 ELSE 1),
                VDiv(Cross(leg, trailing_vortex_direction), scale))

HorseshoeInBand(leg, off, trailing_vortex_direction, gamma, vortex_core_radius) ==
    IF off[1] < 0 \/ Dot(off, off) < 4 * vortex_core_radius * vortex_core_radius
    THEN Zero3
    ELSE HorseshoeVelocity(leg, off, trailing_vortex_direction, gamma,
                           Norm(leg) * Norm(trailing_vortex_direction))

calculate_induced_velocity_horseshoe(field, left, right, trailing_vortex_direction, gamma, vortex_core_radius) ==
    IF (field[2] - left[2]) * (field[2] - right[2]) > 0 THEN Zero3
    ELSE HorseshoeInBand(VSub(right, left), VSub(VScale(2, field), VAdd(left, right)),
                         trailing_vortex_direction, gamma, vortex_core_radius)

\* numpy.linalg.solve(A, b) for the matrices of this kernel, which are lower
\* triangular in panel order unless two filaments coincide: forward
\* substitution; a singular matrix raises LinAlgError
RECURSIVE ForwardSubstitute(_, _, _)
ForwardSubstitute(A, b, x) ==
    IF Len(x) = Len(b) THEN x
    ELSE LET i == Len(x) + 1
             known == SumSeq(<<>> \o [j \in 1..(i - 1) |-> A[i][j] * x[j]])
         IN  ForwardSubstitute(A, b, Append(x, (b[i] - known) \div A[i][i]))

IsSingular(A) ==
    \/ \E i \in 1..Len(A) : A[i][i] = 0
    \/ \E i \in 1..Len(A) : \E j \in (i + 1)..Len(A) : A[i][j] # 0

linalg_solve(A, b) == ForwardSubstitute(A, b, <<>>)


(***************************************************************************)
(* The solver instance                                                     *)
(***************************************************************************)
\* a real number a / b / c as a fixed-point number; the divisions are taken
\* in the order that keeps the most digits within the width of an integer
Coefficient(a, b, c) ==
    IF IsNaN(a) THEN NaN
    ELSE IF Abs(a) < 2000000
    THEN NDiv(NMul(NDiv(NMul(a, FixedPointRoot), b), FixedPointRoot), c)
    ELSE IF Abs(NDiv(a, b)) < 200000
    THEN NDiv(NMul(NDiv(a, b), FixedPoint), c)
    ELSE NMul(NDiv(NDiv(a, b), c), FixedPoint)

\* the attributes of an instance, before any is set
NoInstance ==
    [constructed |-> FALSE, attrs |-> {},
     airplane |-> Airplane(0, "plate"), op_point |-> 0, xyz_ref |-> Zero3,
     spanwise_resolution |-> 1, chordwise_resolution |-> 1,
     vortex_core_radius |-> 0, align_trailing_vortices_with_wind |-> FALSE,
     model_size |-> "medium", run_symmetric |-> FALSE,
     front_left_vertices |-> <<>>, back_left_vertices |-> <<>>,
     back_right_vertices |-> <<>>, front_right_vertices |-> <<>>,
     is_trailing_edge |-> <<>>, is_leading_edge |-> <<>>,
     normal_directions |-> <<>>, areas |-> <<>>,
     left_vortex_vertices |-> <<>>, right_vortex_vertices |-> <<>>,
     vortex_centers |-> <<>>, vortex_bound_leg |-> <<>>,
     collocation_points |-> <<>>, airfoils |-> <<>>, number_of_strips |-> 0,
     steady_freestream_velocity |-> Zero3, steady_freestream_direction |-> Zero3,
     freestream_velocities |-> <<>>,
     vortex_strengths |-> <<>>,
     forces_geometry |-> <<>>, moments_geometry |-> <<>>,
     force_geometry |-> Zero3, force_body |-> Zero3, force_wind |-> Zero3,
     moment_geometry |-> Zero3, moment_body |-> Zero3, moment_wind |-> Zero3,
     streamlines |-> <<>>]

\* VortexLatticeMethod.__init__
init(airplane, op_point, run_symmetric_if_possible, spanwise_resolution, chordwise_resolution, vortex_core_radius, align_trailing_vortices_with_wind, model_size) ==
    [self |-> [NoInstance EXCEPT
                  !.constructed = ~run_symmetric_if_possible,
                  !.airplane = airplane,
                  !.op_point = op_point,
                  !.xyz_ref = airplane.xyz_ref,
                  !.spanwise_resolution = spanwise_resolution,
                  !.chordwise_resolution = chordwise_resolution,
                  !.vortex_core_radius = vortex_core_radius,
                  !.align_trailing_vortices_with_wind = align_trailing_vortices_with_wind,
                  !.model_size = model_size,
                  !.run_symmetric = FALSE],
     exc |-> IF run_symmetric_if_possible THEN "NotImplementedError" ELSE "none"]

\* lines 219-233: the statistics of one panel, from its four vertices
PanelCross(p) == Cross(VSub(p.fr, p.bl), VSub(p.fl, p.br))
PanelNormal(p) == VDiv(VScale(NormalScale, PanelCross(p)), Norm(PanelCross(p)))
PanelArea(p) == Norm(PanelCross(p)) \div 2
LeftVortexVertex(p) == VDiv(VAdd(VScale(3, p.fl), p.bl), 4)
RightVortexVertex(p) == VDiv(VAdd(VScale(3, p.fr), p.br), 4)
VortexCenter(p) == VDiv(VAdd(LeftVortexVertex(p), RightVortexVertex(p)), 2)
VortexBoundLeg(p) == VSub(RightVortexVertex(p), LeftVortexVertex(p))
CollocationPoint(p) ==
    VDiv(VAdd(VAdd(p.fl, VScale(3, p.bl)), VAdd(p.fr, VScale(3, p.br))), 8)

\* lines 214-217: the chord of one strip
StripChord(p) == Norm(VSub(VDiv(VAdd(p.bl, p.br), 2), VDiv(VAdd(p.fl, p.fr), 2)))

\* lines 154-159: the wings with their sections subdivided
Subdivided(s) ==
    <<>> \o [k \in 1..Len(s.airplane.wings) |->
                IF s.spanwise_resolution > 1
                THEN subdivide_sections(s.airplane.wings[k], s.spanwise_resolution)
                ELSE s.airplane.wings[k]]

\* lines 178-187 with the sections taken from the tip to the root
StripAirfoilsFromTip(wing) ==
    <<>> \o [i \in 1..(Len(wing.xsecs) - 1) |->
                blend_with_another_airfoil(wing.xsecs[Len(wing.xsecs) - i].airfoil,
                                           wing.xsecs[Len(wing.xsecs) - i + 1].airfoil,
                                           1, 2)]

\* lines 178-190: the airfoil of every strip of a wing, blended half and half
\* from the sections at its ends
StripAirfoils(wing) ==
    <<>> \o [i \in 1..(Len(wing.xsecs) - 1) |->
                blend_with_another_airfoil(wing.xsecs[i].airfoil,
                                           wing.xsecs[i + 1].airfoil, 1, 2)]

\* lines 171-176: which panels of a wing of n panels lie at the trailing and
\* at the leading edge
TrailingEdgeOf(n, cr) == <<>> \o [i \in 1..n |-> i % cr = 0]

\* lines 174-176 with the positions counted from one
LeadingEdgeOfOneBased(n, cr) == <<>> \o [i \in 1..n |-> i % cr = 0]

LeadingEdgeOf(n, cr) == <<>> \o [i \in 1..n |-> (i - 1) % cr = 0]

\* lines 201-233: the arrays over all panels, and over all strips
PanelArrays(cr, subdivided, faces, all, strips) ==
    [front_left_vertices |-> <<>> \o [i \in 1..Len(all) |-> all[i].fl],
     back_left_vertices |-> <<>> \o [i \in 1..Len(all) |-> all[i].bl],
     back_right_vertices |-> <<>> \o [i \in 1..Len(all) |-> all[i].br],
     front_right_vertices |-> <<>> \o [i \in 1..Len(all) |-> all[i].fr],
     is_trailing_edge |-> Concat(<<>> \o [k \in 1..Len(faces) |->
                                     TrailingEdgeOf(Len(faces[k]), cr)]),
     is_leading_edge |-> Concat(<<>> \o [k \in 1..Len(faces) |->
                                    LeadingEdgeOf(Len(faces[k]), cr)]),
     normal_directions |-> <<>> \o [i \in 1..Len(all) |-> PanelNormal(all[i])],
     areas |-> <<>> \o [i \in 1..Len(all) |-> PanelArea(all[i])],
     left_vortex_vertices |-> <<>> \o [i \in 1..Len(all) |-> LeftVortexVertex(all[i])],
     right_vortex_vertices |-> <<>> \o [i \in 1..Len(all) |-> RightVortexVertex(all[i])],
     vortex_centers |-> <<>> \o [i \in 1..Len(all) |-> VortexCenter(all[i])],
     vortex_bound_leg |-> <<>> \o [i \in 1..Len(all) |-> VortexBoundLeg(all[i])],
     collocation_points |-> <<>> \o [i \in 1..Len(all) |-> CollocationPoint(all[i])],
     airfoils |-> Concat(<<>> \o [k \in 1..Len(subdivided) |->
                             IF subdivided[k].symmetric
                             THEN StripAirfoils(subdivided[k]) \o StripAirfoils(subdivided[k])
                             ELSE StripAirfoils(subdivided[k])]),
     strip_back_left_vertices |-> <<>> \o [i \in 1..Len(strips) |-> strips[i].bl],
     chords |-> <<>> \o [i \in 1..Len(strips) |-> StripChord(strips[i])]]

\* lines 161-200: the panels of every wing, and its strips as single panels
MeshedPanels(cr, subdivided, faces, strip_faces) ==
    PanelArrays(cr, subdivided, faces, Concat(faces), Concat(strip_faces))

MeshedWings(cr, subdivided) ==
    MeshedPanels(cr, subdivided,
                 <<>> \o [k \in 1..Len(subdivided) |-> mesh_thin_surface(subdivided[k], cr, TRUE)],
                 <<>> \o [k \in 1..Len(subdivided) |-> mesh_thin_surface(subdivided[k], 1, FALSE)])

\* run(), "Make Panels": the panel arrays of all wings and what derives from
\* them, as saved to the instance
MakePanels(s) == MeshedWings(s.chordwise_resolution, Subdivided(s))

\* line 250 without the division by the chordwise resolution
number_of_strips_undivided(areas, chordwise_resolution) == Len(areas)

\* line 250
number_of_strips(areas, chordwise_resolution) == Len(areas) \div chordwise_resolution

\* the trailing legs along the wind whatever the setting
TrailingAlongWind(align, steady_freestream_direction) == steady_freestream_direction

\* lines 295-299 and 767-771: the direction of the trailing legs
TrailingVortexDirection(align, steady_freestream_direction) ==
    IF align THEN steady_freestream_direction ELSE <<1, 0, 0>>

\* get_induced_velocity_at_points
get_induced_velocity_at_points(s, points) ==
    <<>> \o [i \in 1..Len(points) |->
        VSumSeq(<<>> \o [j \in 1..Len(s.left_vortex_vertices) |->
            calculate_induced_velocity_horseshoe(
                points[i], s.left_vortex_vertices[j], s.right_vortex_vertices[j],
                TrailingVortexDirection(s.align_trailing_vortices_with_wind,
                                        s.steady_freestream_direction),
                s.vortex_strengths[j], s.vortex_core_radius)])]

\* get_velocity_at_points, for the instance s whose op_point is the object op
\* lines 798-803: the induced velocity and the freestream velocity, added
TotalVelocity(V_induced, steady_freestream_velocity, rotation_freestream_velocities) ==
    <<>> \o [i \in 1..Len(V_induced) |->
        VAdd(V_induced[i],
             VAdd(steady_freestream_velocity, rotation_freestream_velocities[i]))]

get_velocity_at_points(s, op, points) ==
    TotalVelocity(get_induced_velocity_at_points(s, points),
                  s.steady_freestream_velocity,
                  compute_rotation_velocity_geometry_axes(op, points))

\* lines 284-309: the aerodynamic influence coefficients
AICMatrix(collocation_points, left_vortex_vertices, right_vortex_vertices, normal_directions, direction, vortex_core_radius) ==
    <<>> \o [i \in 1..Len(collocation_points) |->
        <<>> \o [j \in 1..Len(left_vortex_vertices) |->
            Dot(calculate_induced_velocity_horseshoe(
                    collocation_points[i], left_vortex_vertices[j],
                    right_vortex_vertices[j], direction, 1, vortex_core_radius),
                normal_directions[i])]]


(***************************************************************************)
(* run(): the viscous correction                                           *)
(***************************************************************************)
tol == 1
max_iter == 100
CLa == 5
Quarter == FixedPoint \div 4

\* np.radians and np.degrees of a fixed-point number
radians(x) == NDiv(NMul(x, 3142), 180000)
degrees(x) == NDiv(NMul(x, 573), 10)

\* lines 400-419
get_aero(model_size, af, alpha, Re) ==
    IF model_size = "xfoil" THEN get_aero_from_xfoil(af, alpha, Re)
    ELSE get_aero_from_neuralfoil(af, alpha, Re, model_size)

\* lines 421-425
get_gradients(model_size, airfoil, alpha, Re) ==
    LET cl_plus == get_aero(model_size, airfoil, NAdd(alpha, Quarter), Re).CL
        cl_minus == get_aero(model_size, airfoil, NSub(alpha, Quarter), Re).CL
    IN  NDiv(NMul(NSub(cl_plus, cl_minus), 10), 5)

\* lines 434-436: the angle the iteration starts from
InitialAlpha(cLsi_i) ==
    LET alpha0 == radians(-2 * FixedPoint)
    IN  degrees(NDiv(NAdd(cLsi_i, CLa * alpha0), CLa))

NewtonStart(cLsi_i) ==
    [alpha1 |-> InitialAlpha(cLsi_i), it |-> 0, evaluations |-> 0,
     done |-> FALSE, converged |-> FALSE, errors |-> <<>>]

\* line 441 with a tolerance ten times as large
WithinLooseTolerance(error) == NLess(Abs(error), 10 * tol)

\* line 441
WithinTolerance(error) == NLess(Abs(error), tol)

\* lines 441-443 with the angle updated before the test
NewtonUpdateBeforeTest(st, error, cl_alpha) ==
    [st EXCEPT !.it = @ + 1, !.evaluations = @ + 3,
               !.errors = Append(@, error),
               !.alpha1 = NSub(@, NDiv(NMul(error, FixedPoint), cl_alpha)),
               !.done = WithinTolerance(error), !.converged = WithinTolerance(error)]

\* lines 437-443: one pass of the loop body, or the loop's end
NewtonUpdate(st, error, cl_alpha) ==
    IF WithinTolerance(error)
    THEN [st EXCEPT !.it = @ + 1, !.evaluations = @ + 3,
                    !.errors = Append(@, error),
                    !.done = TRUE, !.converged = TRUE]
    ELSE [st EXCEPT !.it = @ + 1, !.evaluations = @ + 3,
                    !.errors = Append(@, error),
                    !.alpha1 = NSub(@, NDiv(NMul(error, FixedPoint), cl_alpha))]

NewtonStep(model_size, af, Re, cLsi_i, st) ==
    IF st.it >= max_iter THEN [st EXCEPT !.done = TRUE]
    ELSE NewtonUpdate(st,
                      NSub(get_aero(model_size, af, st.alpha1, Re).CL, cLsi_i),
                      get_gradients(model_size, af, st.alpha1, Re))

\* lines 437-443: at most n more passes of the loop, the first half of them
\* and then the rest
RECURSIVE NewtonLoop(_, _, _, _, _, _)
NewtonLoop(model_size, af, Re, cLsi_i, st, n) ==
    IF st.done \/ n = 0 THEN st
    ELSE IF n = 1 THEN NewtonStep(model_size, af, Re, cLsi_i, st)
    ELSE NewtonLoop(model_size, af, Re, cLsi_i,
                    NewtonLoop(model_size, af, Re, cLsi_i, st, n \div 2),
                    n - n \div 2)

\* lines 433-446, for one strip: the loop, then the polar at the last angle
\* line 444: the polar at the angle the loop ends with
PolarAtLast(st, aero) ==
    [alpha1 |-> st.alpha1, it |-> st.it, evaluations |-> st.evaluations + 1,
     converged |-> st.converged, errors |-> st.errors,
     CLp |-> aero.CL, CDp |-> aero.CD]

StripPolarAt(model_size, af, Re, st) ==
    PolarAtLast(st, get_aero(model_size, af, st.alpha1, Re))

StripPolar(model_size, af, Re, cLsi_i) ==
    StripPolarAt(model_size, af, Re,
                 NewtonLoop(model_size, af, Re, cLsi_i, NewtonStart(cLsi_i), max_iter + 1))


(***************************************************************************)
(* run()                                                                   *)
(***************************************************************************)
\* np.reshape(array, (rows, cols)); numpy raises ValueError when the sizes differ
ReshapeFits(array, rows, cols) == Len(array) = rows * cols
Reshape(array, rows, cols) ==
    <<>> \o [r \in 1..rows |-> <<>> \o [c \in 1..cols |-> array[(r - 1) * cols + c]]]

\* lines 363-369 with the first panel of every strip in place of the sum
StripSumFirst(array, strips, cr) ==
    LET rows == Reshape(array, strips, cr) IN <<>> \o [r \in 1..strips |-> rows[r][1]]

\* lines 363-369: np.sum(np.reshape(x, (number_of_strips, chordwise_resolution)), axis=1)
StripSum(array, strips, cr) ==
    LET rows == Reshape(array, strips, cr) IN <<>> \o [r \in 1..strips |-> SumSeq(rows[r])]

\* lines 456-463: the profile force of one strip
ProfileForce(velocity, CDp, As_i) ==
    LET magnitude == Norm(velocity)
        Component(c) ==
            NMul(NDiv(NMul((Density * velocity[c] * magnitude) \div 2, CDp), FixedPoint),
                 As_i)
    IN  <<Component(1), Component(2), Component(3)>>

\* lines 385-389: where the velocity of the profile force is evaluated
ProfileVelocityPoints(front_left_vertices, front_right_vertices, is_trailing_edge, strip_back_left_vertices) ==
    LET fl == Masked(front_left_vertices, is_trailing_edge)
        fr == Masked(front_right_vertices, is_trailing_edge)
    IN  <<>> \o [i \in 1..Len(fl) |->
            LET mid == VAdd(fl[i], VDiv(VSub(fr[i], fl[i]), 2))
            IN  <<10 * strip_back_left_vertices[i][1], mid[2], mid[3]>>]

\* lines 465-469
AeroCenters(front_left_vertices, back_left_vertices, back_right_vertices, front_right_vertices, is_leading_edge, is_trailing_edge) ==
    LET fl == Masked(front_left_vertices, is_leading_edge)
        bl == Masked(back_left_vertices, is_trailing_edge)
        fr == Masked(front_right_vertices, is_leading_edge)
        br == Masked(back_right_vertices, is_trailing_edge)
    IN  <<>> \o [i \in 1..Len(fl) |->
            VDiv(VAdd(VDiv(VAdd(VScale(3, fl[i]), bl[i]), 4),
                      VDiv(VAdd(VScale(3, fr[i]), br[i]), 4)), 2)]

\* lines 486-489 without the profile force
TotalForceInviscidOnly(forces_geometry, force_profile_geometry) ==
    VSumSeq(forces_geometry)

\* lines 486-493: the totals in geometry axes
TotalForce(forces_geometry, force_profile_geometry) ==
    NVAdd(VSumSeq(forces_geometry), force_profile_geometry)

\* lines 488-493 without the moment of the profile forces
TotalMomentInviscidOnly(moments_geometry, moment_profile_geometry) ==
    VSumSeq(moments_geometry)

\* lines 488-493
TotalMoment(moments_geometry, moment_profile_geometry) ==
    NVAdd(NVAdd(VSumSeq(moments_geometry), moment_profile_geometry), Zero3)

\* lines 536-538
Lift(force_wind) == NNeg(force_wind[3])
Drag(force_wind) == NNeg(force_wind[1])
SideForce(force_wind) == force_wind[2]

Faults == {"none", "mesh", "op_point", "kernel", "solve", "polar"}

\* the exception a collaborator raises when it fails
FaultError(fault) ==
    CASE fault = "mesh" -> "MeshError"
      [] fault = "op_point" -> "OperatingPointError"
      [] fault = "kernel" -> "KernelError"
      [] fault = "solve" -> "LinAlgError"
      [] fault = "polar" -> "PolarError"

\* The frame of a call of run() on the instance s whose op_point is the
\* object op: the instance as the statements so far leave it, the exception
\* raised, the statements executed and the local variables assigned.  fault
\* names the collaborator that raises during this call, if one does.
Frame(s, op, fault) ==
    [self |-> s, op |-> op, fault |-> fault, exc |-> "none", stage |-> "start",
     executed |-> <<>>]

Assign(f, locals) == locals @@ f
Raise(f, name, stage) == [f EXCEPT !.exc = name, !.stage = stage]

\* lines 141-233; np.concatenate of no arrays raises ValueError
RunMakePanels(f) ==
    IF f.fault = "mesh" THEN Raise(f, FaultError("mesh"), "mesh")
    ELSE IF Len(f.self.airplane.wings) = 0 THEN Raise(f, "ValueError", "mesh")
    ELSE Assign(f, [panels |-> MakePanels(f.self)])

\* lines 236-250
RunSavePanels(f) ==
    Assign(f, [self |-> [f.self EXCEPT
                   !.attrs = @ \cup {"panels"},
                   !.front_left_vertices = f.panels.front_left_vertices,
                   !.back_left_vertices = f.panels.back_left_vertices,
                   !.back_right_vertices = f.panels.back_right_vertices,
                   !.front_right_vertices = f.panels.front_right_vertices,
                   !.is_trailing_edge = f.panels.is_trailing_edge,
                   !.is_leading_edge = f.panels.is_leading_edge,
                   !.normal_directions = f.panels.normal_directions,
                   !.areas = f.panels.areas,
                   !.left_vortex_vertices = f.panels.left_vortex_vertices,
                   !.right_vortex_vertices = f.panels.right_vortex_vertices,
                   !.vortex_centers = f.panels.vortex_centers,
                   !.vortex_bound_leg = f.panels.vortex_bound_leg,
                   !.collocation_points = f.panels.collocation_points,
                   !.airfoils = f.panels.airfoils,
                   !.number_of_strips =
                       number_of_strips(f.panels.areas, f.self.chordwise_resolution)],
               N |-> Len(f.panels.areas),
               cr |-> f.self.chordwise_resolution,
               strips |-> number_of_strips(f.panels.areas, f.self.chordwise_resolution)])

\* lines 255-263
RunFreestream(f) ==
    IF f.fault = "op_point" THEN Raise(f, FaultError("op_point"), "op_point")
    ELSE Assign(f, [steady_freestream_velocity |->
                        compute_freestream_velocity_geometry_axes(f.op),
                    rotation_freestream_velocities |->
                        compute_rotation_velocity_geometry_axes(f.op,
                                                                f.panels.collocation_points)])

\* lines 258-267
RunFreestreamVelocities(f) ==
    Assign(f, [steady_freestream_direction |->
                   VDiv(f.steady_freestream_velocity, Norm(f.steady_freestream_velocity)),
               freestream_velocities |->
                   <<>> \o [i \in 1..f.N |->
                       VAdd(f.steady_freestream_velocity,
                            f.rotation_freestream_velocities[i])]])

\* lines 270-277
RunFreestreamInfluences(f) ==
    Assign(f, [freestream_influences |->
                   <<>> \o [i \in 1..f.N |->
                       Dot(f.freestream_velocities[i], f.panels.normal_directions[i])],
               self |-> [f.self EXCEPT
                   !.attrs = @ \cup {"freestream"},
                   !.steady_freestream_velocity = f.steady_freestream_velocity,
                   !.steady_freestream_direction = f.steady_freestream_direction,
                   !.freestream_velocities = f.freestream_velocities]])

\* lines 284-309
RunInfluenceMatrix(f) ==
    IF f.fault = "kernel" THEN Raise(f, FaultError("kernel"), "kernel")
    ELSE Assign(f, [AIC |->
             AICMatrix(f.panels.collocation_points, f.panels.left_vortex_vertices,
                       f.panels.right_vortex_vertices, f.panels.normal_directions,
                       TrailingVortexDirection(f.self.align_trailing_vortices_with_wind,
                                               f.steady_freestream_direction),
                       f.self.vortex_core_radius)])

\* line 315
RunVortexStrengths(f) ==
    IF f.fault = "solve" \/ IsSingular(f.AIC) THEN Raise(f, FaultError("solve"), "solve")
    ELSE Assign(f, [vortex_strengths |->
                        linalg_solve(f.AIC, <<>> \o [i \in 1..f.N |-> -f.freestream_influences[i]])])

RunSaveVortexStrengths(f) ==
    Assign(f, [self |-> [f.self EXCEPT !.attrs = @ \cup {"vortex_strengths"},
                                       !.vortex_strengths = f.vortex_strengths]])

\* line 326
RunCenterVelocities(f) ==
    Assign(f, [V_centers |-> get_velocity_at_points(f.self, f.op, f.panels.vortex_centers)])

\* lines 330-336
RunPanelForces(f) ==
    Assign(f, [forces_geometry |->
        <<>> \o [i \in 1..f.N |->
            VScale(Density * f.vortex_strengths[i],
                   Cross(f.V_centers[i], f.panels.vortex_bound_leg[i]))]])

\* lines 337-346
RunPanelMoments(f) ==
    Assign(f, [moments_geometry |->
                   <<>> \o [i \in 1..f.N |->
                       Cross(VSub(f.panels.vortex_centers[i], f.self.xyz_ref),
                             f.forces_geometry[i])],
               forces_wind_el |->
                   <<>> \o [i \in 1..f.N |->
                       convert_axes(f.op, f.forces_geometry[i], "geometry", "wind")]])

\* lines 347-359
RunElementForces(f) ==
    Assign(f, [Le |-> <<>> \o [i \in 1..f.N |-> -f.forces_wind_el[i][3]],
               De |-> <<>> \o [i \in 1..f.N |-> -f.forces_wind_el[i][1]],
               Ye |-> <<>> \o [i \in 1..f.N |-> -f.forces_wind_el[i][2]],
               moment_body_el |->
                   <<>> \o [i \in 1..f.N |->
                       convert_axes(f.op, f.moments_geometry[i], "geometry", "body")]])

\* lines 363-373
RunStripSums(f) ==
    IF ~ReshapeFits(f.Le, f.strips, f.cr) THEN Raise(f, "ValueError", "strips")
    ELSE Assign(f, [Ls |-> StripSum(f.Le, f.strips, f.cr),
                    Ds |-> StripSum(f.De, f.strips, f.cr),
                    Ys |-> StripSum(f.Ye, f.strips, f.cr),
                    ls |-> StripSum(Column(f.moment_body_el, 1), f.strips, f.cr),
                    ms |-> StripSum(Column(f.moment_body_el, 2), f.strips, f.cr),
                    ns |-> StripSum(Column(f.moment_body_el, 3), f.strips, f.cr),
                    As |-> StripSum(f.panels.areas, f.strips, f.cr),
                    xs1 |-> Reshape(Column(f.panels.front_left_vertices, 1), f.strips, f.cr),
                    xs2 |-> Reshape(Column(f.panels.back_left_vertices, 1), f.strips, f.cr),
                    ys |-> Column(Reshape(Column(f.panels.vortex_centers, 2), f.strips, f.cr), 1)])

\* lines 372 and 377 with a dynamic pressure that grows with the speed, not
\* with its square
RunStripChordsLinearPressure(f) ==
    Assign(f, [cs |-> <<>> \o [r \in 1..f.strips |-> f.xs2[r][f.cr] - f.xs1[r][1]],
               q |-> (Density * f.op.velocity) \div 2])

\* lines 372 and 377
RunStripChords(f) ==
    Assign(f, [cs |-> <<>> \o [r \in 1..f.strips |-> f.xs2[r][f.cr] - f.xs1[r][1]],
               q |-> dynamic_pressure(f.op)])

\* lines 378-383
RunStripCoefficients(f) ==
    Assign(f, [cLsi |-> <<>> \o [r \in 1..f.strips |-> Coefficient(f.Ls[r], f.As[r], f.q)],
               cDsi |-> <<>> \o [r \in 1..f.strips |-> Coefficient(f.Ds[r], f.As[r], f.q)],
               cYs |-> <<>> \o [r \in 1..f.strips |-> Coefficient(f.Ys[r], f.As[r], f.q)],
               cls |-> <<>> \o [r \in 1..f.strips |->
                           NDiv(Coefficient(f.ls[r], f.As[r], f.cs[r]), f.q)],
               cms |-> <<>> \o [r \in 1..f.strips |->
                           NDiv(Coefficient(f.ms[r], f.As[r], f.cs[r]), f.q)],
               cns |-> <<>> \o [r \in 1..f.strips |->
                           NDiv(Coefficient(f.ns[r], f.As[r], f.cs[r]), f.q)]])

\* lines 386-396
RunProfilePoints(f) ==
    Assign(f, [xyz_points |->
                   ProfileVelocityPoints(f.panels.front_left_vertices,
                                         f.panels.front_right_vertices,
                                         f.panels.is_trailing_edge,
                                         f.panels.strip_back_left_vertices),
               Res |-> <<>> \o [r \in 1..Len(f.panels.chords) |->
                           (f.op.velocity * f.panels.chords[r]) \div KinematicViscosity]])

\* lines 428-446
RunPolars(f) ==
    IF f.fault = "polar" THEN Raise(f, FaultError("polar"), "polar")
    ELSE Assign(f, [polars |->
        <<>> \o [i \in 1..Len(f.panels.airfoils) |->
            StripPolar(f.self.model_size, f.panels.airfoils[i], f.Res[i], f.cLsi[i])]])

\* lines 448-453
RunProfileVelocities(f) ==
    Assign(f, [CLps |-> <<>> \o [i \in 1..Len(f.polars) |-> f.polars[i].CLp],
               CDps |-> <<>> \o [i \in 1..Len(f.polars) |-> f.polars[i].CDp],
               velocities |-> get_velocity_at_points(f.self, f.op, f.xyz_points)])

\* lines 456-469
RunProfileForces(f) ==
    Assign(f, [forces_profile_geometry |->
                   <<>> \o [r \in 1..f.strips |->
                       ProfileForce(f.velocities[r], f.CDps[r], f.As[r])],
               aero_centers |->
                   AeroCenters(f.panels.front_left_vertices, f.panels.back_left_vertices,
                               f.panels.back_right_vertices, f.panels.front_right_vertices,
                               f.panels.is_leading_edge, f.panels.is_trailing_edge)])

\* lines 472-477
RunProfileMoments(f) ==
    Assign(f, [moments_profile_geometry |->
                   <<>> \o [r \in 1..f.strips |->
                       NCross(VSub(f.aero_centers[r], f.self.xyz_ref),
                              f.forces_profile_geometry[r])],
               force_profile_geometry |-> NVSumSeq(f.forces_profile_geometry)])

\* lines 478-489
RunTotalForce(f) ==
    Assign(f, [moment_profile_geometry |-> NVSumSeq(f.moments_profile_geometry),
               force_geometry |-> TotalForce(f.forces_geometry, f.force_profile_geometry)])

\* lines 490-501
RunTotalMoment(f) ==
    Assign(f, [moment_geometry |-> TotalMoment(f.moments_geometry, f.moment_profile_geometry),
               force_body |-> convert_axes(f.op, f.force_geometry, "geometry", "body")])

\* lines 502-516
RunBodyAxes(f) ==
    Assign(f, [force_wind |-> convert_axes(f.op, f.force_body, "body", "wind"),
               moment_body |-> convert_axes(f.op, f.moment_geometry, "geometry", "body")])

\* lines 517-533
RunSaveForces(f) ==
    Assign(f, [moment_wind |-> convert_axes(f.op, f.moment_body, "body", "wind"),
               self |-> [f.self EXCEPT
                   !.attrs = @ \cup {"forces"},
                   !.forces_geometry = f.forces_geometry,
                   !.moments_geometry = f.moments_geometry,
                   !.force_geometry = f.force_geometry,
                   !.force_body = f.force_body,
                   !.force_wind = f.force_wind,
                   !.moment_geometry = f.moment_geometry,
                   !.moment_body = f.moment_body,
                   !.moment_wind = convert_axes(f.op, f.moment_body, "body", "wind")]])

\* lines 536-585
RunResult(f) ==
    Assign(f, [stage |-> "done",
               result |->
        [F_g |-> f.force_geometry, F_b |-> f.force_body, F_w |-> f.force_wind,
         M_g |-> f.moment_geometry, M_b |-> f.moment_body, M_w |-> f.moment_wind,
         L |-> Lift(f.force_wind), D |-> Drag(f.force_wind), Y |-> SideForce(f.force_wind),
         l_b |-> f.moment_body[1], m_b |-> f.moment_body[2], n_b |-> f.moment_body[3],
         CL |-> Coefficient(Lift(f.force_wind), f.q, f.self.airplane.s_ref),
         CD |-> Coefficient(Drag(f.force_wind), f.q, f.self.airplane.s_ref),
         CY |-> Coefficient(SideForce(f.force_wind), f.q, f.self.airplane.s_ref),
         Cl |-> NDiv(Coefficient(f.moment_body[1], f.q, f.self.airplane.s_ref),
                     f.self.airplane.b_ref),
         Cm |-> NDiv(Coefficient(f.moment_body[2], f.q, f.self.airplane.s_ref),
                     f.self.airplane.c_ref),
         Cn |-> NDiv(Coefficient(f.moment_body[3], f.q, f.self.airplane.s_ref),
                     f.self.airplane.b_ref),
         cLsi |-> f.cLsi, cLsp |-> f.CLps, cDsi |-> f.cDsi, cDsp |-> f.CDps,
         cYs |-> f.cYs, cls |-> f.cls, cms |-> f.cms, cns |-> f.cns,
         As |-> f.As, ys |-> f.ys, cs |-> f.cs]])

\* the statements of run(), in order
RunStatements ==
    <<"make panels", "save panels", "freestream", "freestream velocities",
      "freestream influences", "influence matrix", "vortex strengths",
      "save vortex strengths", "center velocities", "panel forces", "panel moments",
      "element forces", "strip sums", "strip chords", "strip coefficients",
      "profile points", "polars", "profile velocities", "profile forces",
      "profile moments", "total force", "total moment", "body axes", "save forces",
      "result">>

RunStatement(name, f) ==
    CASE name = "make panels" -> RunMakePanels(f)
      [] name = "save panels" -> RunSavePanels(f)
      [] name = "freestream" -> RunFreestream(f)
      [] name = "freestream velocities" -> RunFreestreamVelocities(f)
      [] name = "freestream influences" -> RunFreestreamInfluences(f)
      [] name = "influence matrix" -> RunInfluenceMatrix(f)
      [] name = "vortex strengths" -> RunVortexStrengths(f)
      [] name = "save vortex strengths" -> RunSaveVortexStrengths(f)
      [] name = "center velocities" -> RunCenterVelocities(f)
      [] name = "panel forces" -> RunPanelForces(f)
      [] name = "panel moments" -> RunPanelMoments(f)
      [] name = "element forces" -> RunElementForces(f)
      [] name = "strip sums" -> RunStripSums(f)
      [] name = "strip chords" -> RunStripChords(f)
      [] name = "strip coefficients" -> RunStripCoefficients(f)
      [] name = "profile points" -> RunProfilePoints(f)
      [] name = "polars" -> RunPolars(f)
      [] name = "profile velocities" -> RunProfileVelocities(f)
      [] name = "profile forces" -> RunProfileForces(f)
      [] name = "profile moments" -> RunProfileMoments(f)
      [] name = "total force" -> RunTotalForce(f)
      [] name = "total moment" -> RunTotalMoment(f)
      [] name = "body axes" -> RunBodyAxes(f)
      [] name = "save forces" -> RunSaveForces(f)
      [] name = "result" -> RunResult(f)

\* the k-th statement, noted as executed
Execute(k, f) ==
    RunStatement(RunStatements[k], [f EXCEPT !.executed = Append(@, RunStatements[k])])

\* the statements from the k-th on, with a statement that raises executed
\* once more, the collaborator then working
RECURSIVE RunFromRetrying(_, _)
RunFromRetrying(k, f) ==
    IF k > Len(RunStatements) \/ f.exc # "none" THEN f
    ELSE IF Execute(k, f).exc # "none"
    THEN RunFromRetrying(k + 1, Execute(k, [Execute(k, f) EXCEPT !.fault = "none",
                                                                  !.exc = "none"]))
    ELSE RunFromRetrying(k + 1, Execute(k, f))

\* the statements from the k-th on, up to the first that raises
RECURSIVE RunFrom(_, _)
RunFrom(k, f) ==
    IF k > Len(RunStatements) \/ f.exc # "none" THEN f
    ELSE RunFrom(k + 1, Execute(k, f))

\* what a call hands back: the instance as the call leaves it, the exception
\* or the returned dictionary, and the intermediate values of the call
RunReturn(f) ==
    IF f.exc # "none"
    THEN [self |-> f.self, exc |-> f.exc, ret |-> <<>>,
          detail |-> [stage |-> f.stage, op |-> f.op, executed |-> f.executed]]
    ELSE [self |-> f.self, exc |-> "none", ret |-> f.result,
          detail |-> [stage |-> "done", op |-> f.op, executed |-> f.executed,
                      AIC |-> f.AIC,
                      freestream_influences |-> f.freestream_influences,
                      vortex_strengths |-> f.vortex_strengths,
                      forces_geometry |-> f.forces_geometry,
                      moments_geometry |-> f.moments_geometry,
                      Le |-> f.Le, Ls |-> f.Ls, Ye |-> f.Ye, Ys |-> f.Ys,
                      De |-> f.De, Ds |-> f.Ds,
                      polars |-> f.polars, Res |-> f.Res, As |-> f.As,
                      velocities |-> f.velocities,
                      xyz_points |-> f.xyz_points,
                      aero_centers |-> f.aero_centers,
                      forces_profile_geometry |-> f.forces_profile_geometry,
                      force_profile_geometry |-> f.force_profile_geometry,
                      moment_profile_geometry |-> f.moment_profile_geometry]]

\* run() on the instance s whose op_point is the object op
run(s, op, fault) == RunReturn(RunFrom(1, Frame(s, op, fault)))


(***************************************************************************)
(* run_with_stability_derivatives()                                        *)
(***************************************************************************)
\* lines 657-663: the degrees of freedom in the order of the loop, and their
\* abbreviations
DegreesOfFreedom == <<"alpha", "beta", "p", "q", "r">>

abbreviations(d) ==
    CASE d = "alpha" -> "a" [] d = "beta" -> "b" [] d = "p" -> "p"
      [] d = "q" -> "q" [] d = "r" -> "r"

\* lines 664-670, in ticks (a tick of an angle or a rate is 0.001)
finite_difference_amounts(op, airplane, d) ==
    CASE d \in {"alpha", "beta"} -> 1
      [] d \in {"p", "r"} -> (2 * op.velocity) \div airplane.b_ref
      [] d = "q" -> (2 * op.velocity) \div airplane.c_ref

\* lines 671-677 (np.degrees(1) rounded down)
scaling_factors(op, airplane, d) ==
    CASE d \in {"alpha", "beta"} -> 57
      [] d \in {"p", "r"} -> (2 * op.velocity) \div airplane.b_ref
      [] d = "q" -> (2 * op.velocity) \div airplane.c_ref

Numerators == <<"CL", "CD", "CY", "Cl", "Cm", "Cn">>

\* lines 722-730 with the difference taken the other way round
DerivativeSwapped(incremented, base, amount, scaling) ==
    NMul(NDiv(NSub(base, incremented), amount), scaling)

\* lines 722-730: one derivative, per thousand ticks
Derivative(incremented, base, amount, scaling) ==
    NMul(NDiv(NSub(incremented, base), amount), scaling)

\* lines 733-740: a neutral point; a derivative of zero in the denominator
\* gives a value that is not finite
NeutralPoint(x_ref, moment_derivative, length, force_derivative) ==
    NSub(x_ref, NDiv(NMul(moment_derivative, length), force_derivative))

\* lines 701 and 708 without the copy: the object itself
SameOperatingPoint(objects, ref) == [objects |-> objects, ref |-> ref]

SameInstance(objects, ref) == [objects |-> objects, ref |-> ref]

\* copy.copy of an operating point (line 701) and of the solver (line 708):
\* a new object with the attributes of the old one
CopyOperatingPoint(objects, ref) ==
    [objects |-> Append(objects, objects[ref]), ref |-> Len(objects) + 1]

CopyInstance(objects, ref) ==
    [objects |-> Append(objects, objects[ref]), ref |-> Len(objects) + 1]

\* A plan names the run() of a call during which a collaborator raises, and
\* the collaborator: the first run() of the call, the second, ...
NoFault == [at |-> 0, fault |-> "none"]
FaultOfRun(plan, k) == IF plan.at = k THEN plan.fault ELSE "none"

\* what the log of a call keeps of one run(): the instance and the
\* operating point object it ran on, and what it computed
RunEntry(instance, op_point, op, out) ==
    [instance |-> instance, op_point |-> op_point, op |-> op,
     exc |-> out.exc, ret |-> out.ret, detail |-> out.detail]

\* lines 701-709: the copy of the operating point with the degree of
\* freedom d incremented, and the copy of the solver that refers to it
IncrementedObjects(copied, made, original, amount, d) ==
    [heap |-> [copied.objects EXCEPT ![copied.ref][d] = original[d] + amount],
     objects |-> [made.objects EXCEPT ![made.ref].op_point = copied.ref],
     vlm_incremented |-> made.ref]

\* lines 712-730: the dictionary with the derivatives with respect to d
WithDerivatives(run_base, run_incremented, amount, scaling, d) ==
    [name \in {Numerators[k] \o abbreviations(d) : k \in 1..Len(Numerators)} |->
        LET k == CHOOSE k \in 1..Len(Numerators) : Numerators[k] \o abbreviations(d) = name
        IN  Derivative(run_incremented[Numerators[k]], run_base[Numerators[k]],
                       amount, scaling)]
        @@ run_base

\* lines 733-740
WithNeutralPoint(s, dictionary, d) ==
    IF d = "alpha"
    THEN ("x_np" :> NeutralPoint(s.xyz_ref[1], dictionary["Cma"],
                                 s.airplane.c_ref, dictionary["CLa"]))
             @@ dictionary
    ELSE IF d = "beta"
    THEN ("x_np_lateral" :> NeutralPoint(s.xyz_ref[1], dictionary["Cnb"],
                                         s.airplane.b_ref, dictionary["CYb"]))
             @@ dictionary
    ELSE dictionary

\* lines 710-740: what the pass leaves, given what its run() hands back
AfterIncrementedRun(st, made, op, out, amount, scaling, d) ==
    [st EXCEPT
        !.heap = made.heap,
        !.objects = [made.objects EXCEPT ![made.vlm_incremented] = out.self],
        !.runs = Append(@, RunEntry(made.vlm_incremented,
                                    made.objects[made.vlm_incremented].op_point, op, out)),
        !.exc = out.exc,
        !.run_base =
            IF out.exc # "none" THEN @
            ELSE WithNeutralPoint(st.objects[1],
                                  WithDerivatives(@, out.ret, amount, scaling, d), d)]

IncrementedRun(st, made, op, amount, scaling, d) ==
    AfterIncrementedRun(st, made, op,
                        run(made.objects[made.vlm_incremented], op,
                            FaultOfRun(st.plan, Len(st.runs) + 1)),
                        amount, scaling, d)

WithIncrementedObjects(st, made, amount, scaling, d) ==
    IncrementedRun(st, made, made.heap[made.objects[made.vlm_incremented].op_point],
                   amount, scaling, d)

\* lines 691-740: one pass of the loop for the degree of freedom d
DerivativePass(st, original_op_point, amount, scaling, d) ==
    WithIncrementedObjects(
        st,
        IncrementedObjects(CopyOperatingPoint(st.heap, original_op_point),
                           CopyInstance(st.objects, 1),
                           st.heap[original_op_point], amount, d),
        amount, scaling, d)

RECURSIVE DerivativeLoop(_, _, _, _, _, _)
DerivativeLoop(st, original_op_point, amounts, scalings, requested, k) ==
    IF k > Len(DegreesOfFreedom) \/ st.exc # "none" THEN st
    ELSE LET d == DegreesOfFreedom[k]
         IN  DerivativeLoop(
                 IF d \in requested
                 THEN DerivativePass(st, original_op_point, amounts[d], scalings[d], d)
                 ELSE st,
                 original_op_point, amounts, scalings, requested, k + 1)

\* lines 679-740: the loop over the degrees of freedom, given what the base
\* run() of line 682 hands back
DerivativesAfterBase(s, store, requested, plan, base) ==
    DerivativeLoop(
        [heap |-> store, objects |-> <<base.self>>,
         runs |-> <<RunEntry(1, s.op_point, store[s.op_point], base)>>,
         run_base |-> base.ret, exc |-> base.exc, plan |-> plan],
        s.op_point,
        [d \in Range(DegreesOfFreedom) |->
            finite_difference_amounts(store[s.op_point], s.airplane, d)],
        [d \in Range(DegreesOfFreedom) |->
            scaling_factors(store[s.op_point], s.airplane, d)],
        requested, 1)

\* line 742, and the objects that are still referred to when the call ends
DerivativesReturn(end) ==
    [self |-> end.objects[1],
     heap |-> SubSeq(end.heap, 1, end.objects[1].op_point),
     exc |-> end.exc,
     ret |-> IF end.exc = "none" THEN end.run_base ELSE <<>>,
     runs |-> end.runs]

\* run_with_stability_derivatives on the instance s, with the operating
\* point objects of store, for the set of degrees of freedom that are
\* requested: the instance and the objects as the call leaves them, the
\* exception or the returned dictionary, and the log of the runs
run_with_stability_derivatives(s, store, requested, plan) ==
    DerivativesReturn(DerivativesAfterBase(s, store, requested, plan,
                                           run(s, store[s.op_point],
                                               FaultOfRun(plan, 1))))


(***************************************************************************)
(* calculate_streamlines() and draw()                                      *)
(***************************************************************************)
\* an optional argument: None, or a value
None == <<>>
Some(v) == <<v>>

\* the source starts about 200 streamlines (line 849) and traces 300 steps
\* by default (line 809); the model starts about SeedsTarget and traces
\* DefaultSteps
SeedsTarget == 4
DefaultSteps == 3

\* lines 850-852 without the lower limit of one seed for a panel
DefaultSeedPointsUnclamped(back_left_vertices, back_right_vertices, is_trailing_edge) ==
    LET left_TE_vertices == Masked(back_left_vertices, is_trailing_edge)
        right_TE_vertices == Masked(back_right_vertices, is_trailing_edge)
        n == Len(left_TE_vertices)
        per_panel == SeedsTarget \div n
    IN  Concat(<<>> \o [m \in 1..per_panel |->
            <<>> \o [i \in 1..n |->
                VDiv(VAdd(VScale(2 * m - 1, left_TE_vertices[i]),
                          VScale(2 * per_panel - (2 * m - 1), right_TE_vertices[i])),
                     2 * per_panel)]])

\* lines 842-864: the seed points when none are given
DefaultSeedPoints(back_left_vertices, back_right_vertices, is_trailing_edge) ==
    LET left_TE_vertices == Masked(back_left_vertices, is_trailing_edge)
        right_TE_vertices == Masked(back_right_vertices, is_trailing_edge)
        n == Len(left_TE_vertices)
        per_panel == IF SeedsTarget \div n > 1 THEN SeedsTarget \div n ELSE 1
    IN  Concat(<<>> \o [m \in 1..per_panel |->
            <<>> \o [i \in 1..n |->
                VDiv(VAdd(VScale(2 * m - 1, left_TE_vertices[i]),
                          VScale(2 * per_panel - (2 * m - 1), right_TE_vertices[i])),
                     2 * per_panel)]])

\* lines 870-872 without the division by the speed
StreamlineStepUnnormalized(point, V, length, n_steps) ==
    NVAdd(point, NVScale(length \div n_steps, V))

\* lines 870-872: one forward-Euler step from a point where the velocity is V
StreamlineStep(point, V, length, n_steps) ==
    LET norm == IF IsNaN3(V) THEN NaN ELSE Norm(V)
        step == NVScale(length \div n_steps, V)
    IN  NVAdd(point, <<NDiv(step[1], norm), NDiv(step[2], norm), NDiv(step[3], norm)>>)

\* the velocity at points of which some may not be finite
VelocityAtPoints(s, op, points) ==
    <<>> \o [n \in 1..Len(points) |->
        IF IsNaN3(points[n]) THEN NaN3
        ELSE get_velocity_at_points(s, op, <<points[n]>>)[1]]

\* lines 869-872: the points of all streamlines one step on
NextSlice(last, V, length, n_steps) ==
    <<>> \o [n \in 1..Len(last) |-> StreamlineStep(last[n], V[n], length, n_steps)]

\* lines 866-872: the points of all streamlines, step by step
RECURSIVE TraceStreamlines(_, _, _, _, _)
TraceStreamlines(s, op, slices, n_steps, length) ==
    IF Len(slices) >= n_steps THEN slices
    ELSE TraceStreamlines(s, op,
             Append(slices, NextSlice(slices[Len(slices)],
                                      VelocityAtPoints(s, op, slices[Len(slices)]),
                                      length, n_steps)),
             n_steps, length)

\* the attributes a call reads, by the step of run() that sets them
HasPanels(s) == "panels" \in s.attrs
HasSolution(s) == {"panels", "freestream", "vortex_strengths"} \subseteq s.attrs

\* calculate_streamlines(seed_points, n_steps, length) on the instance s
\* whose op_point is the object op; n_steps is at least 1
\* the array of shape (seeds, 3, n_steps) of the points of the slices
StreamlinesArray(slices, n_steps) ==
    <<>> \o [n \in 1..Len(slices[1]) |->
        <<>> \o [c \in 1..3 |-> <<>> \o [i \in 1..n_steps |-> slices[i][n][c]]]]

\* lines 874-879
SaveStreamlines(s, streamlines) ==
    [self |-> [s EXCEPT !.attrs = @ \cup {"streamlines"}, !.streamlines = streamlines],
     exc |-> "none", ret |-> streamlines]

calculate_streamlines(s, op, seed_points, n_steps, length, fault) ==
    IF (seed_points = None /\ ~HasPanels(s)) \/ (n_steps > 1 /\ ~HasSolution(s))
    THEN [self |-> s, exc |-> "AttributeError", ret |-> <<>>]
    ELSE IF seed_points = None /\ Len(s.is_trailing_edge) = 0
    THEN [self |-> s, exc |-> "ZeroDivisionError", ret |-> <<>>]
    \* line 867: the collaborators of get_velocity_at_points
    ELSE IF n_steps > 1 /\ fault \in {"kernel", "op_point"}
    THEN [self |-> s, exc |-> FaultError(fault), ret |-> <<>>]
    ELSE SaveStreamlines(s, StreamlinesArray(
             TraceStreamlines(
                 s, op,
                 <<IF seed_points = None
                   THEN DefaultSeedPoints(s.back_left_vertices, s.back_right_vertices,
                                          s.is_trailing_edge)
                   ELSE seed_points[1]>>,
                 n_steps,
                 IF length = None THEN s.airplane.c_ref * 5 ELSE length[1]),
             n_steps))

Backends == {"plotly", "pyvista", "matplotlib"}

\* lines 908-988: the figure of a backend, once the streamlines are there
DrawFigure(traced, draw_streamlines, backend) ==
    IF traced.exc # "none" THEN traced
    ELSE IF backend \in {"plotly", "pyvista"}
    THEN [self |-> traced.self, exc |-> "none",
          ret |-> [backend |-> backend,
                   quads |-> Len(traced.self.front_left_vertices),
                   intensity |-> traced.self.vortex_strengths,
                   streamlines |-> IF draw_streamlines THEN traced.self.streamlines
                                   ELSE <<>>]]
    ELSE [self |-> traced.self, exc |-> "ValueError", ret |-> <<>>]

\* lines 904-906 without the test: the streamlines traced at every call
draw_retracing(s, op, draw_streamlines, recalculate_streamlines, backend) ==
    IF "vortex_strengths" \notin s.attrs
    THEN [self |-> s, exc |-> "AttributeError", ret |-> <<>>]
    ELSE DrawFigure(IF draw_streamlines
                    THEN calculate_streamlines(s, op, None, DefaultSteps, None, "none")
                    ELSE [self |-> s, exc |-> "none", ret |-> <<>>],
                    draw_streamlines, backend)

\* draw(draw_streamlines, recalculate_streamlines, backend) on the instance s
\* whose op_point is the object op, with the other arguments left at their
\* defaults; what is returned is the figure, here what was added to it
draw(s, op, draw_streamlines, recalculate_streamlines, backend) ==
    \* lines 900-902
    IF "vortex_strengths" \notin s.attrs
    THEN [self |-> s, exc |-> "AttributeError", ret |-> <<>>]
    \* lines 904-906
    ELSE DrawFigure(IF draw_streamlines
                       /\ ("streamlines" \notin s.attrs \/ recalculate_streamlines)
                    THEN calculate_streamlines(s, op, None, DefaultSteps, None, "none")
                    ELSE [self |-> s, exc |-> "none", ret |-> <<>>],
                    draw_streamlines, backend)


(***************************************************************************)
(* The inputs of the model                                                 *)
(***************************************************************************)
OperatingPoint(velocity, alpha, beta, p, q, r) ==
    [velocity |-> velocity, alpha |-> alpha, beta |-> beta, p |-> p, q |-> q, r |-> r]

Velocities == {24, 48}

\* the operating points an instance is constructed with
BaseOperatingPoints == {OperatingPoint(24, 0, 0, 0, 0, 0)}

OperatingPoints ==
    BaseOperatingPoints
        \cup {OperatingPoint(24, 1, 0, 0, 0, 0), OperatingPoint(48, 0, 0, 0, 0, 0),
              OperatingPoint(24, 0, 1, 0, 0, 0)}
        \cup {OperatingPoint(24, 0, 0, k, 0, 0) : k \in 1..MaxRate}
        \cup {OperatingPoint(24, 1, 0, 0, k, 0) : k \in 1..MaxRate}
        \cup {OperatingPoint(24, 0, 0, 0, 0, k) : k \in 1..MaxRate}
        \cup {OperatingPoint(24, 0, 1, k, 0, 0) : k \in 1..MaxRate}

\* the keyword arguments of the constructor
Options(spanwise_resolution, chordwise_resolution, vortex_core_radius, align, model_size) ==
    [spanwise_resolution |-> spanwise_resolution,
     chordwise_resolution |-> chordwise_resolution,
     vortex_core_radius |-> vortex_core_radius,
     align_trailing_vortices_with_wind |-> align,
     model_size |-> model_size]

BaseOptions == {Options(1, 1, 0, align, "medium") : align \in BOOLEAN}

AllOptions ==
    BaseOptions
        \cup {Options(sr, 1, 0, FALSE, "medium") : sr \in 1..MaxSpanwise}
        \cup {Options(1, cr, 0, FALSE, "medium") : cr \in 1..MaxChordwise}
        \cup {Options(MaxSpanwise, MaxChordwise, 0, align, "xfoil") : align \in BOOLEAN}
        \cup {Options(1, MaxChordwise, 1, FALSE, "medium")}

\* the constructions explored: every operating point with the base options,
\* every option with the base operating points, and a pitching wing with
\* several panels along the chord
Cases ==
    {c \in Airplanes \X OperatingPoints \X AllOptions :
        \/ c[2] \in BaseOperatingPoints
        \/ c[3] \in BaseOptions
        \/ /\ c[2] = OperatingPoint(24, 1, 0, 0, 1, 0)
           /\ c[3] = Options(1, MaxChordwise, 0, FALSE, "medium")}

NoTrace == [call |-> "none", args |-> <<>>, runs |-> <<>>]

\* the seed points and the lengths a caller passes
ExplicitSeeds == <<<<60, 6, 0>>, <<0, 6, 5>>>>

StreamlineArguments ==
    {<<seeds, n_steps, None>> :
        seeds \in {None, Some(ExplicitSeeds)}, n_steps \in 1..MaxSteps}
        \cup {<<None, 2, Some(SectionSpan)>>}

DrawArguments ==
    {<<draw_streamlines, recalculate, backend>> :
        draw_streamlines \in BOOLEAN, recalculate \in BOOLEAN, backend \in Backends}

\* the operating points a script sets on a solver it has drawn
LaterOperatingPoints ==
    {OperatingPoint(24, 0, 0, 0, 0, 0), OperatingPoint(24, 1, 0, 0, 0, 0)}

\* the sets of derivatives a caller asks for
Requests == {{}, {"beta", "q"}, {"alpha", "p", "r"}}

\* the failures of collaborators during a call that makes several runs
FaultPlans ==
    {NoFault, [at |-> 1, fault |-> "op_point"], [at |-> 2, fault |-> "solve"],
     [at |-> 3, fault |-> "polar"]}

(***************************************************************************)
(* The calls: a script constructs the solver, analyses, traces streamlines *)
(* and draws, each step optional, and ends at the first exception          *)
(***************************************************************************)
Init ==
    /\ self = NoInstance
    /\ heap = <<>>
    /\ exc = "none"
    /\ ret = <<>>
    /\ trace = NoTrace

\* analysis = VortexLatticeMethod(airplane, op_point, ...)
Construct ==
    /\ ~self.constructed
    /\ exc = "none"
    /\ \E c \in Cases, run_symmetric_if_possible \in BOOLEAN :
          \E made \in {init(c[1], 1, run_symmetric_if_possible,
                             c[3].spanwise_resolution, c[3].chordwise_resolution,
                             c[3].vortex_core_radius,
                             c[3].align_trailing_vortices_with_wind, c[3].model_size)} :
                /\ self' = IF made.exc = "none" THEN made.self ELSE NoInstance
                /\ heap' = IF made.exc = "none" THEN <<c[2]>> ELSE <<>>
                /\ exc' = made.exc
                /\ ret' = <<>>
                /\ trace' = [call |-> "init", args |-> <<run_symmetric_if_possible>>,
                             runs |-> <<>>]

\* analysis.run()
Run ==
    /\ self.constructed
    /\ exc = "none"
    /\ trace.call \in {"init", "run", "op_point", "except"}
    /\ \E fault \in Faults :
          \E out \in {run(self, heap[self.op_point], fault)} :
              /\ self' = out.self
              /\ exc' = out.exc
              /\ ret' = out.ret
              /\ trace' = [call |-> "run", args |-> <<fault>>,
                           runs |-> <<RunEntry(1, self.op_point, heap[self.op_point], out)>>]
              /\ UNCHANGED heap

\* analysis.run_with_stability_derivatives(alpha=..., beta=..., p=..., q=..., r=...)
RunWithStabilityDerivatives ==
    /\ self.constructed
    /\ exc = "none"
    /\ trace.call \in {"init", "run"}
    /\ \E requested \in Requests, plan \in FaultPlans :
          \E out \in {run_with_stability_derivatives(self, heap, requested, plan)} :
              /\ self' = out.self
              /\ heap' = out.heap
              /\ exc' = out.exc
              /\ ret' = out.ret
              /\ trace' = [call |-> "run_with_stability_derivatives",
                           args |-> requested, plan |-> plan, runs |-> out.runs]

\* analysis.calculate_streamlines(seed_points, n_steps, length)
CalculateStreamlines ==
    /\ self.constructed
    /\ exc = "none"
    /\ trace.call \in {"init", "run", "except"}
    /\ \E a \in StreamlineArguments, fault \in {"none", "kernel", "op_point"} :
          \E out \in {calculate_streamlines(self, heap[self.op_point],
                                             a[1], a[2], a[3], fault)} :
              /\ self' = out.self
              /\ exc' = out.exc
              /\ ret' = out.ret
              /\ trace' = [call |-> "calculate_streamlines", args |-> a,
                           fault |-> fault, runs |-> <<>>]
              /\ UNCHANGED heap

\* analysis.draw(draw_streamlines=..., recalculate_streamlines=..., backend=...)
Draw ==
    /\ self.constructed
    /\ exc = "none"
    /\ trace.call \in {"init", "run", "calculate_streamlines"}
    /\ \E a \in DrawArguments :
          \E out \in {draw(self, heap[self.op_point], a[1], a[2], a[3])} :
              /\ self' = out.self
              /\ exc' = out.exc
              /\ ret' = out.ret
              /\ trace' = [call |-> "draw", args |-> a, runs |-> <<>>]
              /\ UNCHANGED heap

\* analysis.op_point = OperatingPoint(...), once the solution is drawn or the
\* exception of a run() is caught
SetOperatingPoint ==
    /\ self.constructed
    /\ exc = "none"
    /\ trace.call \in {"draw", "except"}
    /\ Len(heap) < MaxOperatingPoints
    /\ \E op \in LaterOperatingPoints :
          /\ heap' = Append(heap, op)
          /\ self' = [self EXCEPT !.op_point = Len(heap) + 1]
          /\ exc' = "none"
          /\ ret' = <<>>
          /\ trace' = [call |-> "op_point", args |-> <<op>>, runs |-> <<>>]

\* try: analysis.run()
\* except Exception: pass
\* the script catches what run() raised and goes on with the same instance
Except ==
    /\ self.constructed
    /\ exc # "none"
    /\ trace.call = "run"
    /\ exc' = "none"
    /\ trace' = [trace EXCEPT !.call = "except"]
    /\ UNCHANGED <<self, heap, ret>>

Next == Construct \/ Run \/ CalculateStreamlines \/ Draw

Spec == Init /\ [][Next]_vars

\* the scripts that ask for stability derivatives
NextDerivatives == Construct \/ RunWithStabilityDerivatives

SpecDerivatives == Init /\ [][NextDerivatives]_vars

\* the scripts that analyse and draw, and then do so again at another
\* operating point
NextRedraw == Construct \/ Run \/ Draw \/ SetOperatingPoint

SpecRedraw == Init /\ [][NextRedraw]_vars

\* the scripts that analyse, ask for stability derivatives and trace
\* streamlines
NextCalls == Construct \/ Run \/ RunWithStabilityDerivatives \/ CalculateStreamlines

SpecCalls == Init /\ [][NextCalls]_vars

\* the scripts that analyse at several operating points, catch the exception
\* of a run() and go on to trace streamlines
NextRecover == Construct \/ Run \/ SetOperatingPoint \/ Except \/ CalculateStreamlines

SpecRecover == Init /\ [][NextRecover]_vars

(***************************************************************************)
(* What the calls leave behind, as the properties below read it            *)
(***************************************************************************)
\* the last call was a run() that returned
Ran == trace.call = "run" /\ exc = "none"
LastRun == trace.runs[1]

AllZero(s) == \A i \in 1..Len(s) : s[i] = 0
AllZero3(s) == \A i \in 1..Len(s) : s[i] = Zero3

\* a flat wing without camber in a flow without incidence, sideslip or rates
FlatCase ==
    /\ Ran
    /\ Len(self.airplane.wings) > 0
    /\ \A k \in 1..Len(self.airplane.wings) : ~self.airplane.wings[k].cambered
    /\ LastRun.op.alpha = 0 /\ LastRun.op.beta = 0
    /\ LastRun.op.p = 0 /\ LastRun.op.q = 0 /\ LastRun.op.r = 0

(***************************************************************************)
(* C1: configuration errors fail before any computation: draw() on a       *)
(* solved instance with a backend other than plotly and pyvista raises     *)
(* ValueError and leaves the instance as it was, no streamlines computed;  *)
(* the constructor asked to run symmetric raises NotImplementedError.      *)
(***************************************************************************)
C1_FailFast ==
    [][/\ (trace'.call = "init" /\ trace'.args[1]) => exc' = "NotImplementedError"
       /\ (trace'.call = "draw" /\ trace'.args[3] \notin {"plotly", "pyvista"}
              /\ HasSolution(self))
            => (exc' = "ValueError" /\ self' = self)]_vars

StripRow(r) ==
    LET cr == self.chordwise_resolution
    IN  <<>> \o [c \in 1..cr |-> (r - 1) * cr + c]

C3_StripsTimesChordwise ==
    (trace.call = "run" /\ HasPanels(self)) =>
        LET cr == self.chordwise_resolution
            N == Len(self.areas)
            ids == <<>> \o [i \in 1..N |-> i]
        IN  /\ self.number_of_strips * cr = N
            /\ ReshapeFits(ids, self.number_of_strips, cr)
            /\ \A r \in 1..self.number_of_strips :
                  LET row == Reshape(ids, self.number_of_strips, cr)[r]
                  IN  /\ row = StripRow(r)
                      /\ \A c \in 1..cr :
                            /\ self.is_leading_edge[row[c]] <=> c = 1
                            /\ self.is_trailing_edge[row[c]] <=> c = cr
                            /\ self.front_left_vertices[row[c]][2]
                                  = self.front_left_vertices[row[1]][2]
                            /\ self.front_right_vertices[row[c]][2]
                                  = self.front_right_vertices[row[1]][2]
                            /\ c > 1 => self.front_left_vertices[row[c]]
                                           = self.back_left_vertices[row[c - 1]]

C3_Witness ==
    /\ Ran
    /\ Len(self.airplane.wings) > 1
    /\ self.chordwise_resolution > 1
    /\ self.number_of_strips > 2

(***************************************************************************)
(* C4: the strip lift forces add up to the inviscid lift: the sum of Ls is *)
(* the sum of the panel lifts Le, which is minus the wind-axis z component *)
(* of the summed inviscid panel forces.                                    *)
(***************************************************************************)
C4_StripLiftSum ==
    Ran =>
        /\ SumSeq(LastRun.detail.Ls) = SumSeq(LastRun.detail.Le)
        /\ SumSeq(LastRun.detail.Le)
              = -convert_axes(LastRun.op, VSumSeq(self.forces_geometry),
                              "geometry", "wind")[3]
        /\ Len(LastRun.detail.Ls) * self.chordwise_resolution = Len(LastRun.detail.Le)

\* several strips of several panels, where a panel behind the leading one
\* carries lift
C4_Witness ==
    /\ Ran
    /\ self.chordwise_resolution > 1
    /\ Len(LastRun.detail.Ls) > 1
    /\ SumSeq(LastRun.detail.Ls) # 0
    /\ \E i \in 1..Len(LastRun.detail.Ls) : LastRun.detail.Ls[i] # SumSeq(LastRun.detail.Ls)
    /\ \E i \in 1..Len(LastRun.detail.Le) :
          ~self.is_leading_edge[i] /\ LastRun.detail.Le[i] # 0


(***************************************************************************)
(* What run_with_stability_derivatives leaves behind                       *)
(***************************************************************************)
Derived == trace.call = "run_with_stability_derivatives"

\* the place of the run for the degree of freedom d in the log of the call
PassOf(d) ==
    1 + Cardinality({k \in 1..Len(DegreesOfFreedom) :
                        /\ DegreesOfFreedom[k] \in trace.args
                        /\ \E m \in k..Len(DegreesOfFreedom) : DegreesOfFreedom[m] = d})

\* the direction the claim gives the trailing legs of a run at op
ClaimedTrailingDirection(op) ==
    IF self.align_trailing_vortices_with_wind
    THEN compute_freestream_direction_geometry_axes(op)
    ELSE <<1, 0, 0>>

(***************************************************************************)
(* C5: the influence matrix of a run depends on the panels, the direction  *)
(* of the trailing legs and the core radius only: the runs of one call     *)
(* whose trailing direction is the same have the same matrix, whatever     *)
(* their rates and circulations, and every entry is the normal component   *)
(* of the velocity a unit horseshoe induces with the trailing legs along   *)
(* the freestream direction when aligned with the wind and along           *)
(* <<1, 0, 0>> when not.                                                   *)
(***************************************************************************)
C5_InfluenceOfGeometryOnly ==
    Derived =>
        \A i \in 1..Len(trace.runs) :
            trace.runs[i].exc = "none" =>
                /\ \A j \in 1..Len(trace.runs) :
                      (/\ trace.runs[j].exc = "none"
                       /\ ClaimedTrailingDirection(trace.runs[i].op)
                             = ClaimedTrailingDirection(trace.runs[j].op))
                          => trace.runs[i].detail.AIC = trace.runs[j].detail.AIC
                /\ \A m \in 1..Len(self.collocation_points) :
                      \A n \in 1..Len(self.left_vortex_vertices) :
                          trace.runs[i].detail.AIC[m][n]
                              = Dot(calculate_induced_velocity_horseshoe(
                                        self.collocation_points[m],
                                        self.left_vortex_vertices[n],
                                        self.right_vortex_vertices[n],
                                        ClaimedTrailingDirection(trace.runs[i].op),
                                        1, self.vortex_core_radius),
                                    self.normal_directions[m])

C5_Witness ==
    /\ Derived /\ exc = "none"
    /\ ~self.align_trailing_vortices_with_wind
    /\ Len(self.areas) > 1
    /\ \E i, j \in 1..Len(trace.runs) :
          /\ trace.runs[i].op.q # trace.runs[j].op.q
          /\ trace.runs[i].detail.vortex_strengths # trace.runs[j].detail.vortex_strengths

(***************************************************************************)
(* C6: the dictionary run_with_stability_derivatives returns has, for      *)
(* every requested degree of freedom d and every coefficient C, the field  *)
(* C + abbreviation(d) = (perturbed C - base C) / increment(d) *           *)
(* scaling(d); no such field for a d not requested; x_np exactly when      *)
(* alpha was requested and x_np_lateral exactly when beta was; and every   *)
(* key of the base run with the value of the base run.                     *)
(***************************************************************************)
C6_DerivativeFields ==
    (Derived /\ exc = "none") =>
        LET base == trace.runs[1]
            airplane == self.airplane
        IN  /\ \A k \in 1..Len(DegreesOfFreedom), n \in 1..Len(Numerators) :
                  LET d == DegreesOfFreedom[k]
                      name == Numerators[n] \o abbreviations(d)
                  IN  IF d \in trace.args
                      THEN /\ name \in DOMAIN ret
                           /\ ret[name] =
                                 NMul(NDiv(NSub(trace.runs[PassOf(d)].ret[Numerators[n]],
                                                base.ret[Numerators[n]]),
                                           finite_difference_amounts(base.op, airplane, d)),
                                      scaling_factors(base.op, airplane, d))
                      ELSE name \notin DOMAIN ret
            /\ ("x_np" \in DOMAIN ret) <=> ("alpha" \in trace.args)
            /\ ("x_np_lateral" \in DOMAIN ret) <=> ("beta" \in trace.args)
            /\ \A key \in DOMAIN base.ret : key \in DOMAIN ret /\ ret[key] = base.ret[key]

C6_Witness ==
    /\ Derived /\ exc = "none"
    /\ trace.args = {"beta", "q"}
    /\ ret["CLq"] # 0 /\ ~IsNaN(ret["CLq"])
    /\ ret["CDb"] # 0
    /\ "x_np_lateral" \in DOMAIN ret

(***************************************************************************)
(* C7: run_with_stability_derivatives makes one base run and then one full *)
(* run for each requested degree of freedom, in the order alpha, beta, p,  *)
(* q, r: 1 + k runs when it returns; the operating point of the run for d  *)
(* is the original one with d alone raised by its increment.               *)
(***************************************************************************)
C7_OneRunPerDerivative ==
    Derived =>
        LET base == trace.runs[1]
        IN  /\ base.op = heap[self.op_point]
            /\ Len(trace.runs) <= 1 + Cardinality(trace.args)
            /\ exc = "none" => Len(trace.runs) = 1 + Cardinality(trace.args)
            /\ \A i \in 1..Len(trace.runs) :
                  /\ i < Len(trace.runs) => trace.runs[i].exc = "none"
                  /\ trace.runs[i].exc = "none" => trace.runs[i].detail.stage = "done"
            /\ \A k \in 1..Len(DegreesOfFreedom) :
                  LET d == DegreesOfFreedom[k]
                  IN  (d \in trace.args /\ PassOf(d) <= Len(trace.runs)) =>
                          trace.runs[PassOf(d)].op =
                              [base.op EXCEPT
                                  ![d] = @ + finite_difference_amounts(base.op,
                                                                      self.airplane, d)]

C7_Witness ==
    /\ Derived /\ exc = "none"
    /\ trace.args = {"alpha", "p", "r"}
    /\ Len(trace.runs) = 4
    /\ trace.runs[1].op.alpha = 1
    /\ trace.runs[2].op.alpha = 2
    /\ trace.runs[4].op.r > trace.runs[1].op.r
    /\ trace.runs[4].op.p = trace.runs[1].op.p
    /\ trace.runs[4].op.alpha = 1

(***************************************************************************)
(* C8: every perturbed run of run_with_stability_derivatives is made on a  *)
(* copy of its own with an operating point object of its own: after the    *)
(* call the instance refers to the operating point object it referred to   *)
(* before, which is unchanged, has the same airplane, and caches the       *)
(* circulation, the freestream velocity and the panels of the base run.    *)
(***************************************************************************)
C8_PerturbedRunsOnCopies ==
    [][trace'.call = "run_with_stability_derivatives" =>
          /\ self'.op_point = self.op_point
          /\ heap' = heap
          /\ self'.airplane = self.airplane
          /\ \A i \in 2..Len(trace'.runs) :
                /\ trace'.runs[i].instance # 1
                /\ trace'.runs[i].op_point # self.op_point
                /\ \A j \in 1..(i - 1) :
                      /\ trace'.runs[j].instance # trace'.runs[i].instance
                      /\ trace'.runs[j].op_point # trace'.runs[i].op_point
          /\ trace'.runs[1].instance = 1
          /\ trace'.runs[1].op_point = self.op_point
          /\ trace'.runs[1].exc = "none" =>
                /\ self'.vortex_strengths = trace'.runs[1].detail.vortex_strengths
                /\ self'.steady_freestream_velocity
                      = compute_freestream_velocity_geometry_axes(heap[self.op_point])
                /\ self'.collocation_points = MakePanels(self).collocation_points
                /\ self'.left_vortex_vertices = MakePanels(self).left_vortex_vertices
                /\ self'.force_geometry = trace'.runs[1].ret.F_g]_vars

C8_Witness ==
    /\ Derived /\ exc = "none"
    /\ Len(trace.runs) > 3
    /\ \A i \in 2..Len(trace.runs) :
          /\ trace.runs[i].detail.vortex_strengths # self.vortex_strengths
          /\ trace.runs[i].op # heap[self.op_point]

(***************************************************************************)
(* C9: the Newton iteration of every strip ends: at the first iteration    *)
(* whose residual cl - cLsi is below the tolerance in magnitude, and       *)
(* otherwise after max_iter = 100 iterations, in which case run() still    *)
(* returns and takes the polar at the last angle; an iteration makes 3     *)
(* polar evaluations and one more follows the loop, 301 at most.           *)
(***************************************************************************)
C9_NewtonTerminates ==
    Ran =>
        \A i \in 1..Len(LastRun.detail.polars) :
            LET polar == LastRun.detail.polars[i]
                Below(error) == ~IsNaN(error) /\ error < tol /\ -error < tol
            IN  /\ polar.it = Len(polar.errors)
                /\ polar.it >= 1 /\ polar.it <= 100
                /\ \A k \in 1..(polar.it - 1) : ~Below(polar.errors[k])
                /\ polar.converged <=> Below(polar.errors[polar.it])
                /\ ~polar.converged => polar.it = 100
                /\ polar.converged => polar.errors[polar.it] = polar.CLp - ret.cLsi[i]
                /\ polar.evaluations = 3 * polar.it + 1
                /\ polar.evaluations <= 301
                /\ ret.cLsp[i] = polar.CLp
                /\ ret.cDsp[i] = polar.CDp

C9_Witness ==
    /\ Ran
    /\ \E i, j \in 1..Len(LastRun.detail.polars) :
          /\ ~LastRun.detail.polars[i].converged
          /\ LastRun.detail.polars[i].evaluations = 301
          /\ ~IsNaN(LastRun.detail.polars[i].alpha1)
          /\ LastRun.detail.polars[j].converged
          /\ LastRun.detail.polars[j].it = 2

(***************************************************************************)
(* C10 as stated: calculate_streamlines returns an array of shape (seeds,  *)
(* 3, n_steps) whose slice 0 is the seed points and whose slice i is slice *)
(* i - 1 plus length / n_steps times the unit vector of the velocity at    *)
(* slice i - 1, so that every step is length / n_steps long whatever the   *)
(* speed.                                                                  *)
(***************************************************************************)
Traced == trace.call = "calculate_streamlines" /\ exc = "none"

SeedsOfCall ==
    IF trace.args[1] = None
    THEN DefaultSeedPoints(self.back_left_vertices, self.back_right_vertices,
                           self.is_trailing_edge)
    ELSE trace.args[1][1]

LengthOfCall == IF trace.args[3] = None THEN self.airplane.c_ref * 5 ELSE trace.args[3][1]

\* the point of streamline n at step i of the returned array
PointOf(n, i) == <<ret[n][1][i], ret[n][2][i], ret[n][3][i]>>

\* the returned array has the shape (seeds, 3, n_steps) and starts at the seeds
ShapeOfStreamlines ==
    /\ Len(ret) = Len(SeedsOfCall)
    /\ self.streamlines = ret
    /\ \A n \in 1..Len(ret) :
          /\ Len(ret[n]) = 3
          /\ \A c \in 1..3 : Len(ret[n][c]) = trace.args[2]
          /\ PointOf(n, 1) = SeedsOfCall[n]

\* the velocity at the point of streamline n at step i
VelocityOf(n, i) ==
    get_velocity_at_points(self, heap[self.op_point], <<PointOf(n, i)>>)[1]

\* step i of streamline n is size times the unit vector of the velocity V,
\* and as long as size, within the rounding of the speed and of the
\* components to integers
UnitStep(n, i, V, size) ==
    LET speed == Sqrt(V[1] * V[1] + V[2] * V[2] + V[3] * V[3])
        step == VSub(PointOf(n, i), PointOf(n, i - 1))
        longest == (size * (speed + 1)) \div speed + 2
    IN  /\ speed > 0
        /\ \A c \in 1..3 : step[c] = (size * V[c]) \div speed
        /\ Dot(step, step) <= longest * longest
        /\ Dot(step, step) >= (size - 2) * (size - 2)

C10_StreamlineSteps ==
    Traced =>
        /\ ShapeOfStreamlines
        /\ \A n \in 1..Len(ret) :
              \A i \in 2..trace.args[2] :
                  /\ ~IsNaN3(PointOf(n, i - 1))
                  /\ UnitStep(n, i, VelocityOf(n, i - 1), LengthOfCall \div trace.args[2])

(***************************************************************************)
(* C10 as amended: the same, wherever the velocity at slice i - 1 is not   *)
(* zero; where it is zero the step is 0 / 0, and the streamline is not a   *)
(* number from slice i on.                                                 *)
(***************************************************************************)
C10_StepsWhereTheFlowMoves ==
    Traced =>
        /\ ShapeOfStreamlines
        /\ \A n \in 1..Len(ret) :
              \A i \in 2..trace.args[2] :
                  IF IsNaN3(PointOf(n, i - 1)) \/ VelocityOf(n, i - 1) = Zero3
                  THEN PointOf(n, i) = NaN3
                  ELSE UnitStep(n, i, VelocityOf(n, i - 1),
                                LengthOfCall \div trace.args[2])

\* two steps are traced from two seeds: at one the flow moves, faster than
\* one length unit per time unit, and the streamline advances; at the other
\* the velocity is zero and the streamline is lost
C10_Witness ==
    /\ Traced
    /\ trace.args[2] = 2
    /\ \E n \in 1..Len(ret) :
          /\ ~IsNaN3(PointOf(n, 2))
          /\ PointOf(n, 2) # PointOf(n, 1)
          /\ Dot(VelocityOf(n, 1), VelocityOf(n, 1)) > 1
    /\ \E n \in 1..Len(ret) :
          /\ VelocityOf(n, 1) = Zero3
          /\ PointOf(n, 2) = NaN3


(***************************************************************************)
(* The same analysis at twice the freestream speed                         *)
(***************************************************************************)
\* a steady flow at an angle of attack alone: no sideslip, no body rates
SteadyCase ==
    /\ Ran
    /\ LastRun.op.beta = 0
    /\ LastRun.op.p = 0 /\ LastRun.op.q = 0 /\ LastRun.op.r = 0

\* what run() hands back for the same airplane, options and atmosphere when
\* the operating point has twice the velocity
AtDoubleSpeed == run(self, [LastRun.op EXCEPT !.velocity = 2 * @], "none")

(***************************************************************************)
(* C11 as stated: doubling the freestream speed at a fixed angle of attack *)
(* (no sideslip, no body rates, the same geometry and atmosphere) leaves   *)
(* every coefficient run() returns unchanged: CL, CD, CY, Cl, Cm, Cn.      *)
(***************************************************************************)
C11_CoefficientsUnchanged ==
    SteadyCase =>
        /\ AtDoubleSpeed.exc = "none"
        /\ \A k \in 1..Len(Numerators) :
              AtDoubleSpeed.ret[Numerators[k]] = ret[Numerators[k]]

(***************************************************************************)
(* C11 as amended: doubling the speed leaves the influence matrix as it    *)
(* is, doubles the circulation of every panel and leaves the inviscid      *)
(* coefficients of every strip unchanged (cLsi, cDsi, cYs, cls, cms, cns); *)
(* the Reynolds number of every strip doubles, and the totals follow the   *)
(* profile drag coefficient the polar gives at that Reynolds number.       *)
(***************************************************************************)
C11_InviscidCoefficientsUnchanged ==
    SteadyCase =>
        /\ AtDoubleSpeed.exc = "none"
        /\ AtDoubleSpeed.detail.AIC = LastRun.detail.AIC
        /\ \A i \in 1..Len(self.vortex_strengths) :
              AtDoubleSpeed.detail.vortex_strengths[i] = 2 * self.vortex_strengths[i]
        /\ \A name \in {"cLsi", "cDsi", "cYs", "cls", "cms", "cns"} :
              AtDoubleSpeed.ret[name] = ret[name]
        /\ \A i \in 1..Len(LastRun.detail.Res) :
              AtDoubleSpeed.detail.Res[i] = 2 * LastRun.detail.Res[i]

\* a lifting wing whose drag coefficient is lower at twice the speed
C11_Witness ==
    /\ SteadyCase
    /\ LastRun.op.alpha = 1
    /\ \E i \in 1..Len(ret.cLsi) : ret.cLsi[i] # 0 /\ ~IsNaN(ret.cLsi[i])
    /\ ret.CL # 0 /\ ~IsNaN(ret.CL)
    /\ AtDoubleSpeed.ret.CD < ret.CD


(***************************************************************************)
(* Errors of collaborators                                                 *)
(***************************************************************************)
\* the statement of run() that calls the collaborator a stage is named after
StatementOf(stage) ==
    CASE stage = "mesh" -> "make panels"
      [] stage = "op_point" -> "freestream"
      [] stage = "kernel" -> "influence matrix"
      [] stage = "solve" -> "vortex strengths"
      [] stage = "strips" -> "strip sums"
      [] stage = "polar" -> "polars"

\* the entry r of a log is a run() during which the collaborator fault
\* raised, if any did: the statements were executed in order, each once, up
\* to the one that raised and no further, and the exception of the run is
\* the one that statement met
RunPropagates(r, fault) ==
    /\ r.detail.executed = SubSeq(RunStatements, 1, Len(r.detail.executed))
    /\ fault # "none" => r.exc # "none"
    /\ r.exc = "none" =>
          /\ Len(r.detail.executed) = Len(RunStatements)
          /\ r.ret # <<>>
    /\ r.exc # "none" =>
          /\ r.ret = <<>>
          /\ r.detail.executed[Len(r.detail.executed)] = StatementOf(r.detail.stage)
          /\ \/ r.detail.stage = fault /\ r.exc = FaultError(fault)
             \/ r.detail.stage = "mesh" /\ r.exc = "ValueError"
             \/ r.detail.stage = "solve" /\ r.exc = "LinAlgError"

(***************************************************************************)
(* C12: an error a collaborator raises (the mesher, the horseshoe kernel,  *)
(* the linear solve, an airfoil polar, the operating point) during run(),  *)
(* run_with_stability_derivatives() or calculate_streamlines() reaches the *)
(* caller as it was raised: the call ends at the statement that met it,    *)
(* executes no statement twice, makes no further run(), and returns        *)
(* nothing; a call either returns a result or fails once.                  *)
(***************************************************************************)
C12_ErrorsPropagate ==
    [][/\ trace'.call = "run" =>
             /\ RunPropagates(trace'.runs[1], trace'.args[1])
             /\ exc' = trace'.runs[1].exc
             /\ ret' = trace'.runs[1].ret
       /\ trace'.call = "run_with_stability_derivatives" =>
             LET n == Len(trace'.runs)
             IN  /\ \A i \in 1..n :
                       /\ RunPropagates(trace'.runs[i], FaultOfRun(trace'.plan, i))
                       /\ i < n => trace'.runs[i].exc = "none"
                 /\ exc' = trace'.runs[n].exc
                 /\ exc' = "none" <=> ret' # <<>>
                 /\ exc' = "none" => n = 1 + Cardinality(trace'.args)
                 /\ trace'.plan.at \in 1..(1 + Cardinality(trace'.args)) =>
                       exc' # "none" /\ n <= trace'.plan.at
       /\ trace'.call = "calculate_streamlines" =>
             /\ exc' = "none" <=> ret' # <<>>
             /\ exc' # "none" => self' = self
             /\ (trace'.fault # "none" /\ trace'.args[2] > 1) =>
                   /\ exc' # "none"
                   /\ HasSolution(self) /\ Len(self.is_trailing_edge) > 0
                         => exc' = FaultError(trace'.fault)]_vars

\* the polar fails during the third run() of a call for three derivatives,
\* after two runs that returned
C12_Witness ==
    /\ Derived
    /\ exc = "PolarError"
    /\ Cardinality(trace.args) = 3
    /\ Len(trace.runs) = 3
    /\ trace.runs[2].exc = "none"
    /\ trace.runs[3].detail.stage = "polar"
    /\ ret = <<>>


(***************************************************************************)
(* C13: the streamlines are kept on the instance and traced on demand      *)
(* only.  draw() with draw_streamlines set calls calculate_streamlines     *)
(* (with its defaults) exactly when the instance has no streamlines yet or *)
(* recalculate_streamlines is set, and otherwise draws the stored ones;    *)
(* run() and the assignment of another operating point leave the stored    *)
(* streamlines as they are, whatever the new circulation.                  *)
(***************************************************************************)
\* what calculate_streamlines() gives on the instance as it is
FreshStreamlines ==
    calculate_streamlines(self, heap[self.op_point], None, DefaultSteps, None, "none").ret

C13_StreamlinesOnDemand ==
    [][/\ (trace'.call = "draw" /\ HasSolution(self) /\ Len(self.areas) > 0) =>
             IF trace'.args[1] /\ ("streamlines" \notin self.attrs \/ trace'.args[2])
             THEN /\ "streamlines" \in self'.attrs
                  /\ self'.streamlines = FreshStreamlines
             ELSE self' = self
       /\ (trace'.call = "draw" /\ exc' = "none") =>
             ret'.streamlines = IF trace'.args[1] THEN self'.streamlines ELSE <<>>
       /\ trace'.call \in {"run", "op_point"} =>
             /\ self'.streamlines = self.streamlines
             /\ "streamlines" \in self'.attrs <=> "streamlines" \in self.attrs]_vars

\* the solution is drawn again after a run() at another operating point,
\* with the streamlines of the first one, which are not those the new
\* solution has
C13_Witness ==
    /\ trace.call = "draw" /\ exc = "none"
    /\ trace.args[1] /\ ~trace.args[2]
    /\ Len(heap) = 2 /\ heap[2] # heap[1]
    /\ self.op_point = 2
    /\ self.steady_freestream_velocity = compute_freestream_velocity_geometry_axes(heap[2])
    /\ ret.streamlines = self.streamlines
    /\ self.streamlines # <<>>
    /\ self.streamlines # FreshStreamlines


(***************************************************************************)
(* C14: the profile (viscous) force of every strip and its moment about    *)
(* the reference point are added to the totals in geometry axes before any *)
(* conversion of axes: F_g and M_g are the sums of the panel forces and    *)
(* moments plus those of the profile forces, F_b, F_w, M_b and M_w are     *)
(* conversions of these, and L, D, Y, l_b, m_b, n_b and the six            *)
(* coefficients are taken from them; the strip coefficients cLsi, cDsi,    *)
(* cYs, cls, cms and cns come from the inviscid panel forces alone.        *)
(***************************************************************************)
\* the inviscid strip loads, from the panel forces the instance keeps
InviscidWind(i) == convert_axes(LastRun.op, self.forces_geometry[i], "geometry", "wind")
InviscidBody(i) == convert_axes(LastRun.op, self.moments_geometry[i], "geometry", "body")

InviscidStripForce(r, c) ==
    SumSeq(<<>> \o [k \in 1..self.chordwise_resolution |->
               -InviscidWind((r - 1) * self.chordwise_resolution + k)[c]])

InviscidStripMoment(r, c) ==
    SumSeq(<<>> \o [k \in 1..self.chordwise_resolution |->
               InviscidBody((r - 1) * self.chordwise_resolution + k)[c]])

C14_ViscousInTotals ==
    Ran =>
        LET d == LastRun.detail
            op == LastRun.op
            q == dynamic_pressure(op)
            airplane == self.airplane
        IN  /\ d.force_profile_geometry = NVSumSeq(d.forces_profile_geometry)
            /\ d.moment_profile_geometry
                  = NVSumSeq(<<>> \o [r \in 1..Len(d.forces_profile_geometry) |->
                                 NCross(VSub(d.aero_centers[r], self.xyz_ref),
                                        d.forces_profile_geometry[r])])
            /\ ret.F_g = NVAdd(VSumSeq(self.forces_geometry), d.force_profile_geometry)
            /\ ret.M_g = NVAdd(VSumSeq(self.moments_geometry), d.moment_profile_geometry)
            /\ ret.F_b = convert_axes(op, ret.F_g, "geometry", "body")
            /\ ret.F_w = convert_axes(op, ret.F_g, "geometry", "wind")
            /\ ret.M_b = convert_axes(op, ret.M_g, "geometry", "body")
            /\ ret.M_w = convert_axes(op, ret.M_g, "geometry", "wind")
            /\ ret.L = NNeg(ret.F_w[3]) /\ ret.D = NNeg(ret.F_w[1]) /\ ret.Y = ret.F_w[2]
            /\ ret.l_b = ret.M_b[1] /\ ret.m_b = ret.M_b[2] /\ ret.n_b = ret.M_b[3]
            /\ ret.CL = Coefficient(ret.L, q, airplane.s_ref)
            /\ ret.CD = Coefficient(ret.D, q, airplane.s_ref)
            /\ ret.CY = Coefficient(ret.Y, q, airplane.s_ref)
            /\ ret.Cl = NDiv(Coefficient(ret.l_b, q, airplane.s_ref), airplane.b_ref)
            /\ ret.Cm = NDiv(Coefficient(ret.m_b, q, airplane.s_ref), airplane.c_ref)
            /\ ret.Cn = NDiv(Coefficient(ret.n_b, q, airplane.s_ref), airplane.b_ref)
            /\ \A r \in 1..self.number_of_strips :
                  /\ ret.cLsi[r] = Coefficient(InviscidStripForce(r, 3), ret.As[r], q)
                  /\ ret.cDsi[r] = Coefficient(InviscidStripForce(r, 1), ret.As[r], q)
                  /\ ret.cYs[r] = Coefficient(InviscidStripForce(r, 2), ret.As[r], q)
                  /\ ret.cls[r] = NDiv(Coefficient(InviscidStripMoment(r, 1), ret.As[r],
                                                   ret.cs[r]), q)
                  /\ ret.cms[r] = NDiv(Coefficient(InviscidStripMoment(r, 2), ret.As[r],
                                                   ret.cs[r]), q)
                  /\ ret.cns[r] = NDiv(Coefficient(InviscidStripMoment(r, 3), ret.As[r],
                                                   ret.cs[r]), q)

\* a lifting wing with a profile drag whose moment about the reference point
\* is part of the total
C14_Witness ==
    /\ Ran
    /\ LastRun.op.alpha = 1
    /\ ~IsNaN3(LastRun.detail.force_profile_geometry)
    /\ LastRun.detail.force_profile_geometry # Zero3
    /\ ~IsNaN3(LastRun.detail.moment_profile_geometry)
    /\ LastRun.detail.moment_profile_geometry # Zero3
    /\ VSumSeq(self.forces_geometry) # Zero3
    /\ VSumSeq(self.moments_geometry) # Zero3
    /\ ret.M_b # convert_axes(LastRun.op, VSumSeq(self.moments_geometry), "geometry", "body")
    /\ \E r \in 1..self.number_of_strips : ret.cLsi[r] # 0 /\ ~IsNaN(ret.cLsi[r])


(***************************************************************************)
(* C15: the flags of the leading and of the trailing edge follow the       *)
(* position of a panel within its wing modulo chordwise_resolution: of the *)
(* panels of every strip the first alone is at the leading edge and the    *)
(* last alone at the trailing edge, so that there are as many panels at    *)
(* the leading edge as at the trailing edge as strips (with a chordwise    *)
(* resolution of 1 every panel is at both), for several wings as for one.  *)
(***************************************************************************)
\* the panels each wing of the instance contributes
PanelsOfWing(k) ==
    Len(mesh_thin_surface(Subdivided(self)[k], self.chordwise_resolution, TRUE))

\* the wing of panel i and its position within the wing, counted from 0
RECURSIVE WingOfPanel(_, _)
WingOfPanel(i, k) ==
    IF i <= PanelsOfWing(k) THEN [wing |-> k, position |-> i - 1]
    ELSE WingOfPanel(i - PanelsOfWing(k), k + 1)

FlagCount(flags) == Cardinality({i \in 1..Len(flags) : flags[i]})

C15_EdgeFlags ==
    (trace.call = "run" /\ HasPanels(self)) =>
        LET cr == self.chordwise_resolution
            N == Len(self.areas)
        IN  /\ Len(self.is_leading_edge) = N /\ Len(self.is_trailing_edge) = N
            /\ N = SumSeq(<<>> \o [k \in 1..Len(self.airplane.wings) |-> PanelsOfWing(k)])
            /\ \A i \in 1..N :
                  /\ self.is_leading_edge[i] <=> WingOfPanel(i, 1).position % cr = 0
                  /\ self.is_trailing_edge[i] <=> (WingOfPanel(i, 1).position + 1) % cr = 0
            /\ \A r \in 1..self.number_of_strips :
                  /\ {c \in 1..cr : self.is_leading_edge[(r - 1) * cr + c]} = {1}
                  /\ {c \in 1..cr : self.is_trailing_edge[(r - 1) * cr + c]} = {cr}
                  /\ WingOfPanel((r - 1) * cr + 1, 1).wing = WingOfPanel(r * cr, 1).wing
            /\ FlagCount(self.is_leading_edge) = self.number_of_strips
            /\ FlagCount(self.is_trailing_edge) = self.number_of_strips
            /\ cr = 1 => \A i \in 1..N : self.is_leading_edge[i] /\ self.is_trailing_edge[i]

\* two wings of which one is mirrored, several sections and two panels along
\* the chord: panels that carry one flag, and panels that carry none
C15_Witness ==
    /\ trace.call = "run" /\ HasPanels(self)
    /\ Len(self.airplane.wings) = 2
    /\ \E k \in 1..2 : self.airplane.wings[k].symmetric
    /\ \E k \in 1..2 : ~self.airplane.wings[k].symmetric
    /\ self.spanwise_resolution > 1
    /\ self.chordwise_resolution > 1
    /\ FlagCount(self.is_leading_edge) = 6
    /\ \E i \in 1..Len(self.areas) : self.is_leading_edge[i] /\ ~self.is_trailing_edge[i]


(***************************************************************************)
(* C16: calculate_streamlines without seed points starts the streamlines   *)
(* at the trailing edges: with T panels at the trailing edge and a target  *)
(* of SeedsTarget streamlines (200 in the source), every such panel gets   *)
(* the same number max(1, SeedsTarget \div T) of seeds, each a convex      *)
(* combination of its back left and back right vertex (their midpoint when *)
(* it gets one), T * max(1, SeedsTarget \div T) in all: at most the target *)
(* when T is at most the target, and T when it is more.  Without a length  *)
(* the streamlines are 5 times the reference chord long.                   *)
(***************************************************************************)
TrailingPanels == {i \in 1..Len(self.is_trailing_edge) : self.is_trailing_edge[i]}

\* the k-th panel at the trailing edge, in panel order
TrailingPanel(k) ==
    CHOOSE i \in TrailingPanels : Cardinality({j \in TrailingPanels : j <= i}) = k

\* the point the fraction num / den of the way from b to a
Along(a, b, num, den) == VDiv(VAdd(VScale(num, a), VScale(den - num, b)), den)

C16_DefaultSeeds ==
    (Traced /\ trace.args[1] = None) =>
        LET T == Cardinality(TrailingPanels)
            per == IF SeedsTarget \div T >= 1 THEN SeedsTarget \div T ELSE 1
        IN  /\ T = self.number_of_strips
            /\ Len(ret) = T * per
            /\ T <= SeedsTarget => Len(ret) <= SeedsTarget
            /\ T > SeedsTarget => Len(ret) = T
            /\ \A k \in 1..T :
                  LET left == self.back_left_vertices[TrailingPanel(k)]
                      right == self.back_right_vertices[TrailingPanel(k)]
                      seeds == {n \in 1..Len(ret) : (n - 1) % T = k - 1}
                  IN  /\ Cardinality(seeds) = per
                      /\ \A n \in seeds :
                            \E m \in 1..per :
                                PointOf(n, 1) = Along(left, right, 2 * m - 1, 2 * per)
                      /\ per = 1 => \A n \in seeds :
                            PointOf(n, 1) = VDiv(VAdd(left, right), 2)
            /\ trace.args[3] = None =>
                  \A n \in 1..Len(ret) :
                      (trace.args[2] > 1 /\ VelocityOf(n, 1) # Zero3) =>
                          UnitStep(n, 2, VelocityOf(n, 1),
                                   (5 * self.airplane.c_ref) \div trace.args[2])

\* two panels at the trailing edge with two seeds each, at the quarters of
\* the edge, and a first step of the default length
C16_Witness ==
    /\ Traced /\ trace.args[1] = None /\ trace.args[3] = None
    /\ trace.args[2] > 1
    /\ Cardinality(TrailingPanels) = 2
    /\ Len(self.areas) = 4
    /\ Len(ret) = 4
    /\ PointOf(1, 1) # PointOf(3, 1)
    /\ PointOf(1, 1)[2] # (self.back_left_vertices[TrailingPanel(1)][2]
                             + self.back_right_vertices[TrailingPanel(1)][2]) \div 2
    /\ ~IsNaN3(PointOf(1, 2))


(***************************************************************************)
(* C17: every strip has one blended airfoil.  After run() has made the     *)
(* panels the list of airfoils is as long as there are strips: one blend   *)
(* for every pair of adjacent sections of every subdivided wing, the list  *)
(* of a symmetric wing twice; and airfoil i goes with the lift             *)
(* coefficient, the Reynolds number and the area of strip i, which lies    *)
(* between the same two sections of the same wing.                         *)
(***************************************************************************)
SectionsOfWing(k) == Len(Subdivided(self)[k].xsecs) - 1

StripsOfWing(k) ==
    SectionsOfWing(k) * (IF self.airplane.wings[k].symmetric THEN 2 ELSE 1)

\* the wing and the pair of sections strip r lies between
RECURSIVE StationOfStrip(_, _)
StationOfStrip(r, k) ==
    IF r <= StripsOfWing(k)
    THEN [a |-> Subdivided(self)[k].xsecs[((r - 1) % SectionsOfWing(k)) + 1],
          b |-> Subdivided(self)[k].xsecs[((r - 1) % SectionsOfWing(k)) + 2],
          mirrored |-> r > SectionsOfWing(k)]
    ELSE StationOfStrip(r - StripsOfWing(k), k + 1)

Mirrored(v, mirrored) == IF mirrored THEN <<v[1], -v[2], v[3]>> ELSE v

C17_OneAirfoilPerStrip ==
    Ran =>
        LET d == LastRun.detail
            cr == self.chordwise_resolution
            strips == self.number_of_strips
        IN  /\ Len(self.airfoils) = strips
            /\ strips = SumSeq(<<>> \o [k \in 1..Len(self.airplane.wings) |->
                                   StripsOfWing(k)])
            /\ Len(d.polars) = strips /\ Len(d.Res) = strips /\ Len(ret.As) = strips
            /\ \A r \in 1..strips :
                  LET at == StationOfStrip(r, 1)
                      first == (r - 1) * cr + 1
                  IN  /\ self.airfoils[r]
                            = blend_with_another_airfoil(at.a.airfoil, at.b.airfoil, 1, 2)
                      /\ self.front_left_vertices[first] = Mirrored(at.a.xyz_le, at.mirrored)
                      /\ self.front_right_vertices[first] = Mirrored(at.b.xyz_le, at.mirrored)
                      /\ ret.As[r] = SumSeq(SubSeq(self.areas, first, r * cr))
                      /\ d.Res[r] = (LastRun.op.velocity * ((at.a.chord + at.b.chord) \div 2))
                                        \div KinematicViscosity
                      /\ d.polars[r] = StripPolar(self.model_size, self.airfoils[r],
                                                  d.Res[r], ret.cLsi[r])
                      /\ ret.cLsp[r] = d.polars[r].CLp /\ ret.cDsp[r] = d.polars[r].CDp
                      /\ d.forces_profile_geometry[r]
                            = ProfileForce(d.velocities[r], ret.cDsp[r], ret.As[r])

\* subdivided wings, one of them mirrored, whose strips differ in airfoil
\* and in lift coefficient
C17_Witness ==
    /\ Ran
    /\ self.spanwise_resolution > 1
    /\ Len(self.airplane.wings) > 1
    /\ \E k \in 1..Len(self.airplane.wings) : self.airplane.wings[k].symmetric
    /\ self.airfoils[1] # self.airfoils[2]
    /\ \E r \in 1..self.number_of_strips : self.airfoils[r].polar # self.airfoils[1].polar
    /\ \E r \in 1..self.number_of_strips : ret.cLsi[r] # ret.cLsi[1]
    /\ \E r \in 1..self.number_of_strips : ret.cDsp[r] # ret.cDsp[1]


(***************************************************************************)
(* C18: the polar coefficients of a strip are those at the converged       *)
(* angle.  When the iteration of a strip ends by the test of the           *)
(* tolerance, the polar that gives cLsp and cDsp is evaluated at the very  *)
(* angle whose lift coefficient passed the test, which is not updated      *)
(* after the test: cLsp differs from cLsi by less than the tolerance.      *)
(***************************************************************************)
C18_PolarAtConvergedAngle ==
    Ran =>
        \A i \in 1..Len(LastRun.detail.polars) :
            LET polar == LastRun.detail.polars[i]
                atLast == get_aero(self.model_size, self.airfoils[i], polar.alpha1,
                                   LastRun.detail.Res[i])
            IN  polar.converged =>
                    /\ ~IsNaN(polar.alpha1)
                    /\ ret.cLsp[i] = atLast.CL
                    /\ ret.cDsp[i] = atLast.CD
                    /\ polar.errors[polar.it] = atLast.CL - ret.cLsi[i]
                    /\ ret.cLsp[i] - ret.cLsi[i] < tol
                    /\ ret.cLsi[i] - ret.cLsp[i] < tol

\* a strip that converges at once on a polar without a slope, and a strip
\* with lift that converges after the angle was updated
C18_Witness ==
    /\ Ran
    /\ \E i \in 1..Len(LastRun.detail.polars) :
          /\ LastRun.detail.polars[i].converged
          /\ LastRun.detail.polars[i].it = 1
          /\ get_gradients(self.model_size, self.airfoils[i],
                           LastRun.detail.polars[i].alpha1, LastRun.detail.Res[i]) = 0
    /\ \E i \in 1..Len(LastRun.detail.polars) :
          /\ LastRun.detail.polars[i].converged
          /\ LastRun.detail.polars[i].it > 1
          /\ LastRun.detail.polars[i].alpha1 # InitialAlpha(ret.cLsi[i])
          /\ ret.cLsi[i] # 0


(***************************************************************************)
(* C19: the profile force of every strip lies along the total velocity at  *)
(* the aerodynamic center of the strip: the velocity that gives the force  *)
(* is taken at the point aero_centers[r] at which the force is applied for *)
(* its moment.                                                             *)
(***************************************************************************)
\* the total velocity at the aerodynamic center of strip r
VelocityAtAeroCenter(r) ==
    get_velocity_at_points(self, LastRun.op, <<LastRun.detail.aero_centers[r]>>)[1]

C19_ForceAlongVelocityAtAeroCenter ==
    Ran =>
        \A r \in 1..self.number_of_strips :
            LastRun.detail.forces_profile_geometry[r]
                = ProfileForce(VelocityAtAeroCenter(r), ret.cDsp[r], ret.As[r])


(***************************************************************************)
(* C20: the loads of the strips and the total loads have the same signs.   *)
(* Without a viscous contribution, that is for the total of the inviscid   *)
(* panel forces, the side forces Ys of the strips add up to the side force *)
(* Y that run() returns, as the lifts Ls add up to L and the drags Ds to   *)
(* D.                                                                      *)
(***************************************************************************)
\* the total force in wind axes without the profile forces
InviscidForceWind ==
    convert_axes(LastRun.op,
                 convert_axes(LastRun.op, VSumSeq(self.forces_geometry), "geometry", "body"),
                 "body", "wind")

C20_StripSumsAreTotals ==
    Ran =>
        /\ SumSeq(LastRun.detail.Ls) = Lift(InviscidForceWind)
        /\ SumSeq(LastRun.detail.Ds) = Drag(InviscidForceWind)
        /\ SumSeq(LastRun.detail.Ys) = SideForce(InviscidForceWind)

(***************************************************************************)
(* The attributes a run() saves, after runs that raise                     *)
(***************************************************************************)
\* the circulation that line 315 computes from the panels and the freestream
\* saved on the instance s (lines 236-277)
CachedInfluenceMatrix(s) ==
    AICMatrix(s.collocation_points, s.left_vortex_vertices,
              s.right_vortex_vertices, s.normal_directions,
              TrailingVortexDirection(s.align_trailing_vortices_with_wind,
                                      s.steady_freestream_direction),
              s.vortex_core_radius)

CachedInfluences(s) ==
    <<>> \o [i \in 1..Len(s.areas) |->
                -Dot(s.freestream_velocities[i], s.normal_directions[i])]

CachedStateConsistent(s) ==
    /\ Len(s.freestream_velocities) = Len(s.areas)
    /\ Len(s.vortex_strengths) = Len(s.areas)
    /\ ~IsSingular(CachedInfluenceMatrix(s))
    /\ s.vortex_strengths = linalg_solve(CachedInfluenceMatrix(s), CachedInfluences(s))

\* C21: whenever the instance holds panels, a freestream and vortex strengths
\* (what get_velocity_at_points and calculate_streamlines read), after any
\* sequence of run() calls, those that raised at the linear solve or in the
\* airfoil polars included, the three come from one run(): the vortex
\* strengths are the solution for the saved panels and the saved freestream.
C21_CachedStateConsistent ==
    (self.constructed /\ exc = "none" /\ HasSolution(self)) => CachedStateConsistent(self)


=============================================================================
